---- MODULE Spec2Model ----
(***************************************************************************)
(* Transaction orchestration engine of giwa-bot (src/bot.py): the Chain    *)
(* handle's nonce, build_and_send with its one underpriced retry,          *)
(* wait_receipt_with_progress, wait_for_l2_credit, estimate_and_cap_gas,   *)
(* ensure_funds_for_tx and the transfer/deposit loop of                    *)
(* distribute_and_bridge.                                                  *)
(*                                                                         *)
(* The node is the environment: every RPC (fee history, gas estimate,      *)
(* balance, receipt lookup, raw-transaction broadcast) answers with a      *)
(* value the action draws from a small set, or fails.                      *)
(*                                                                         *)
(* Amounts are in wei, with GweiScale wei to the gwei (10^9 in web3) so    *)
(* that products stay inside TLC's integers.  Python's int(x * 1.25) and   *)
(* int(base * 2.5 + tip * 2) are exact for every amount below 2^50 and     *)
(* are computed here as integer floors; int(est * 1.15) is not exact       *)
(* (1.15 has no binary representation) and may lose 1 when est is a        *)
(* multiple of 20: the model allows both results.                          *)
(***************************************************************************)
EXTENDS Integers, Sequences, FiniteSets, TLC

VARIABLES
    \* ---- Chain handles and the submission pipeline
    nonce,        \* Chain.nonce of each handle
    pc,           \* where the (single) thread of control stands
    chain,        \* build_and_send: the handle of the running call
    tx,           \* build_and_send: the pending call (a Python dict)
    allow_speedup,\* build_and_send: the caller's opt-in to the retry
    ret,          \* outcome of the last build_and_send: [kind, error]
    given,        \* ghost: what the running call was given: the caller's dict, the
                  \*        node's answer to the gas estimate
    nonce_at_call,\* ghost: the handle's nonce when the running call began
    fundsLog,     \* ghost: the results of the running call's ensure_funds_for_tx checks
    attempts,     \* ghost: the broadcasts the running call made, with the node's answer
    sent,         \* ghost: every transaction the node accepted, in order
    nonce0,       \* ghost: each handle's nonce at creation
    \* ---- distribute_and_bridge
    dist,         \* its locals: target index, fee quote, tx1/tx2, outcome
    \* ---- wait_receipt_with_progress
    wpc, wtimeout, welapsed, last_err, wresult,
    wfirst,       \* ghost: the first receipt any poll observed
    wlate,        \* ghost: a poll was made after a receipt had been observed
    wpolls,       \* ghost: polls made by the running wait
    \* ---- wait_for_l2_credit
    cpc, cbefore, cdelta, ctimeout, celapsed, cresult,
    cseen,        \* ghost: some poll observed a balance >= before + delta
    cpolls,       \* ghost: polls made by the running wait
    \* ---- estimate_and_cap_gas, as a function under test
    gcall,        \* its last call: [est, ok, cap, gas]
    \* ---- get_eip1559_fees, as a function under test
    fcall,        \* its last call: the node's answer, the profile's chain, the quote
    \* ---- ensure_funds_for_tx, as a function under test
    ecall,        \* its last call: [bal, value, gas, max_fee, ok]
    \* ---- one_click_flow_random, the 24-hour loop
    flow,         \* its position, cycle_count, the countdown, ghosts: see NoFlow
    \* ---- run_single_cycle
    cyc,          \* its locals and ghosts: see NoCycle
    \* ---- the ERC-20 helpers and the bridge operations
    stack,        \* the frames of the running operation, the callee last
    opret,        \* what the frame that just ended handed to its caller
    allowance,    \* the token's allowance of the account to the L1 bridge (on chain)
    oplog           \* ghost: what the running (or last) operation did: see NoLog

sendVars   == <<nonce, pc, chain, tx, allow_speedup, given, ret, nonce_at_call, fundsLog,
               attempts, sent, nonce0, dist>>
waitVars   == <<wpc, wtimeout, welapsed, last_err, wresult, wfirst, wlate, wpolls>>
creditVars == <<cpc, cbefore, cdelta, ctimeout, celapsed, cresult, cseen, cpolls>>
gasVars    == <<gcall>>
feeVars    == <<fcall, ecall, flow>>
cycleVars  == <<cyc>>
bridgeVars == <<stack, opret, allowance, oplog>>
opVars     == <<feeVars, cycleVars, bridgeVars>>
vars       == <<sendVars, waitVars, creditVars, gasVars, opVars>>

----------------------------------------------------------------------------
(* Bounds of the model *)

GweiScale    == 10    \* wei per gwei in the model (10^9 in web3)
MaxTimeout   == 7     \* the timeouts a directly called wait is given: 0..MaxTimeout
MaxLatency   == 1     \* time one RPC round trip adds to a poll: 0..MaxLatency
MaxBalance   == 3     \* before-balances a directly called credit wait is given
MaxDelta     == 2     \* minimum deltas a directly called credit wait is given
MaxEstSteps  == 60    \* node gas estimates: multiples of EstStep up to MaxEstSteps
MaxSends     == 2     \* transactions accepted by the node in one run
MaxBaseGwei  == 1     \* base fees the node reports: 0..MaxBaseGwei gwei
MaxFeeBase   == 60    \* base fees a directly called fee quote observes: 0..MaxFeeBase wei
MaxFundsBal  == 12    \* balances a directly called funds check reads: 0..MaxFundsBal
MaxFundsArg  == 2     \* its value, gas and max fee: 0..MaxFundsArg each
PartTokens   == 4     \* a token balance short of ERC20_TOKENS, in whole tokens
MaxAccounts  == 2     \* accounts of one run_single_cycle: 1..MaxAccounts
MaxCycles    == 2     \* cycles the 24-hour loop starts in one run
CountdownTicks == 2   \* sleeps of one countdown in the model (24 * 60 * 60 in the code)
MaxTargets   == 2     \* receiving accounts of one distribute_and_bridge: 1..MaxTargets
SlowPoll     == 118   \* round trip of a poll made inside an operation (see CallerWaitPoll)

(* Program constants *)

TX_WAIT_TIMEOUT      == 240
TX_POLL_INTERVAL     == 2
CREDIT_POLL_INTERVAL == 5
CREDIT_TIMEOUT       == 300
CAP_PLAIN            == 300000
CAP_DATA             == 700000
EstStep              == 20000
AMOUNT_GWEI_PER_TARGET == 100000000   \* AMOUNT_ETH_PER_TARGET = 0.1 ether, in gwei
TRANSFER_GAS         == 21000
DEPOSIT_GAS_CAP      == 300000
ERC20_TOKENS         == 10          \* ERC20_AMOUNT = 10 * 10**18, in whole tokens
APPROVE_FLOOR_TOKENS == 1000000     \* to_wei("1000000", "ether"), in whole tokens
RECOVERY_MIN_GWEI    == 10000000    \* to_wei("0.01", "ether"), in gwei

Min(a, b) == IF a <= b THEN a ELSE b
Max(a, b) == IF a >= b THEN a ELSE b

----------------------------------------------------------------------------
(* wait_receipt_with_progress *)

\* What one eth.get_transaction_receipt lookup can answer.
Receipt(s)   == [kind |-> "receipt", status |-> s]
NullAnswer   == [kind |-> "null",    status |-> 0]
LookupError  == [kind |-> "error",   status |-> 0]
PollOutcomes == {Receipt(1), Receipt(0), NullAnswer, LookupError}

\* What the wait hands back: a receipt, None, or (never, in this code) an exception.
NoneResult   == [kind |-> "None",    status |-> 0]
RaisedResult == [kind |-> "raised",  status |-> 0]
Pending      == [kind |-> "pending", status |-> 0]

Latencies == 0..MaxLatency

\* `if rcpt:` -- any receipt ends the wait, whatever its status.
ReturnsReceipt_OnlySuccess(out) == out.kind = "receipt" /\ out.status = 1
ReturnsReceipt(out) == out.kind = "receipt"

\* `return None` after the loop.
WaitTimeoutResult_Raise == RaisedResult
WaitTimeoutResult == NoneResult

\* time.time() - start at the next loop test: the round trip of the lookup and the
\* time.sleep(interval) have passed.
AfterSleep_NoSleep(elapsed, lat, interval) == elapsed
AfterSleep(elapsed, lat, interval) == elapsed + lat + interval

\* start = time.time(); last_err = None
WaitBegin(timeout) ==
    /\ wpc' = "poll"
    /\ wtimeout' = timeout
    /\ welapsed' = 0
    /\ last_err' = "None"
    /\ wresult' = Pending
    /\ wfirst' = Pending
    /\ wlate' = FALSE
    /\ wpolls' = 0

\* One iteration of the loop: the lookup, then either the return or the sleep.
WaitPollStep(out, lat) ==
    /\ wpc = "poll"
    /\ welapsed < wtimeout
    /\ wpolls' = wpolls + 1
    /\ wfirst' = IF wfirst = Pending /\ out.kind = "receipt" THEN out ELSE wfirst
    /\ wlate' = (wlate \/ wfirst # Pending)
    /\ IF ReturnsReceipt(out)
       THEN /\ wresult' = out
            /\ wpc' = "done"
            /\ UNCHANGED <<welapsed, last_err>>
       ELSE /\ last_err' = IF out.kind = "error" THEN "error" ELSE last_err
            /\ welapsed' = AfterSleep(welapsed, lat, TX_POLL_INTERVAL)
            /\ UNCHANGED <<wresult, wpc>>
    /\ UNCHANGED wtimeout

\* The loop condition fails: time.time() - start >= timeout.
WaitExpire ==
    /\ wpc = "poll"
    /\ welapsed >= wtimeout
    /\ wresult' = WaitTimeoutResult
    /\ wpc' = "done"
    /\ UNCHANGED <<wtimeout, welapsed, last_err, wfirst, wlate, wpolls>>

\* The wait called on its own, with any timeout.
WaitCall ==
    /\ wpc \in {"off", "done"}
    /\ \E t \in 0..MaxTimeout : WaitBegin(t)
    /\ UNCHANGED <<sendVars, creditVars, gasVars, opVars>>

WaitPoll ==
    /\ \E out \in PollOutcomes, lat \in Latencies : WaitPollStep(out, lat)
    /\ UNCHANGED <<sendVars, creditVars, gasVars, opVars>>

WaitTimeout ==
    /\ WaitExpire
    /\ UNCHANGED <<sendVars, creditVars, gasVars, opVars>>

----------------------------------------------------------------------------
(* wait_for_l2_credit *)

\* What one eth.get_balance read can answer: a balance, or the RPC fails.
BalanceOk(b)  == [ok |-> TRUE,  bal |-> b]
BalanceFailed == [ok |-> FALSE, bal |-> 0]

\* delta = now - before_balance; `if delta >= expect_min_delta_wei`
CreditReached_Strict(now, before, expect) == now - before > expect
CreditReached(now, before, expect) == now - before >= expect

\* expect_min_delta_wei's default: Web3.to_wei("0.00015", "ether") = 150000 gwei
DefaultMinDelta == 150000 * GweiScale

\* start = time.time()
CreditBegin(before, delta, timeout) ==
    /\ cpc' = "poll"
    /\ cbefore' = before
    /\ cdelta' = delta
    /\ ctimeout' = timeout
    /\ celapsed' = 0
    /\ cresult' = "pending"
    /\ cseen' = FALSE
    /\ cpolls' = 0

\* The balances a poll of the running wait may read: around before and before + delta.
CreditReads ==
    {BalanceOk(b) : b \in {x \in {cbefore - 1, cbefore, cbefore + cdelta - 1,
                                  cbefore + cdelta, cbefore + cdelta + 1} : x >= 0}}
        \cup {BalanceFailed}

\* One iteration: the balance read (outside any try), the comparison, the sleep.
CreditPollStep(read, lat) ==
    /\ cpc = "poll"
    /\ celapsed < ctimeout
    /\ cpolls' = cpolls + 1
    /\ cseen' = (cseen \/ (read.ok /\ read.bal >= cbefore + cdelta))
    /\ IF ~read.ok
       THEN /\ cresult' = "raised"
            /\ cpc' = "done"
            /\ UNCHANGED celapsed
       ELSE IF CreditReached(read.bal, cbefore, cdelta)
       THEN /\ cresult' = "true"
            /\ cpc' = "done"
            /\ UNCHANGED celapsed
       ELSE /\ celapsed' = AfterSleep(celapsed, lat, CREDIT_POLL_INTERVAL)
            /\ UNCHANGED <<cresult, cpc>>
    /\ UNCHANGED <<cbefore, cdelta, ctimeout>>

\* The loop condition fails: `return False`.
CreditExpire ==
    /\ cpc = "poll"
    /\ celapsed >= ctimeout
    /\ cresult' = "false"
    /\ cpc' = "done"
    /\ UNCHANGED <<cbefore, cdelta, ctimeout, celapsed, cseen, cpolls>>

\* The wait called on its own, with any before-balance, delta and timeout.
CreditCall ==
    /\ cpc \in {"off", "done"}
    /\ \E b \in 0..MaxBalance, d \in 0..MaxDelta, t \in 0..(MaxTimeout + CREDIT_POLL_INTERVAL) :
          CreditBegin(b, d, t)
    /\ UNCHANGED <<sendVars, waitVars, gasVars, opVars>>

CreditPoll ==
    /\ \E read \in CreditReads, lat \in Latencies : CreditPollStep(read, lat)
    /\ UNCHANGED <<sendVars, waitVars, gasVars, opVars>>

CreditTimeout ==
    /\ CreditExpire
    /\ UNCHANGED <<sendVars, waitVars, gasVars, opVars>>

----------------------------------------------------------------------------
(* estimate_and_cap_gas *)

\* What eth.estimate_gas can answer: an estimate, or it fails (the call would revert).
GasOk(e)  == [ok |-> TRUE,  est |-> e]
GasFailed == [ok |-> FALSE, est |-> 0]
Caps      == {CAP_PLAIN, CAP_DATA}
Estimates ==
    {k * EstStep : k \in 0..MaxEstSteps}
        \cup {21000}
        \cup {(c * 100) \div 115 + d : c \in Caps, d \in {0, 1}}
GasAnswers == {GasOk(e) : e \in Estimates} \cup {GasFailed}

\* int(est * 1.15): the float product falls 1 short of est * 115 / 100 for some
\* multiples of 20 (100 * 1.15 = 114.99999999999999), and never otherwise.
FloatLoss(est) == IF est > 0 /\ est % 20 = 0 THEN {0, 1} ELSE {0}
ScaledEstimate(est, loss) == (est * 115) \div 100 - loss

\* gas = int(est * 1.15); return min(gas, default_cap); on failure return default_cap
EstimateAndCapGas_NoCap(ans, loss, default_cap) ==
    IF ans.ok THEN ScaledEstimate(ans.est, loss) ELSE default_cap
EstimateAndCapGas(ans, loss, default_cap) ==
    IF ans.ok THEN Min(ScaledEstimate(ans.est, loss), default_cap) ELSE default_cap

NoGasCall == [est |-> 0, ok |-> TRUE, cap |-> 0, gas |-> 0]

\* The estimator called on its own, with any estimate and either cap.
GasCall ==
    /\ \E ans \in GasAnswers, cap \in Caps :
         \E loss \in FloatLoss(ans.est) :
            gcall' = [est |-> ans.est, ok |-> ans.ok, cap |-> cap,
                      gas |-> EstimateAndCapGas(ans, loss, cap)]
    /\ UNCHANGED <<sendVars, waitVars, creditVars, opVars>>

----------------------------------------------------------------------------
(* Chain handles, fee_profile, get_eip1559_fees, ensure_funds_for_tx *)

Handles == {"l1", "l2"}

\* Chain.name, as its words: "Ethereum Sepolia" and "GIWA Sepolia" (main).
ChainName(h) == IF h = "l2" THEN <<"GIWA", "Sepolia">> ELSE <<"Ethereum", "Sepolia">>

\* chain_name.startswith("GIWA")
StartsWithGIWA(name) == Len(name) >= 1 /\ name[1] = "GIWA"

\* eth.chain_id as the two nodes report it.
ChainId(h) == IF h = "l2" THEN 91342 ELSE 11155111

\* fee_profile: (tip_gwei, max_multiplier), the multiplier as a fraction: 2.5 = 5/2.
fee_profile(name) ==
    IF StartsWithGIWA(name)
    THEN [tip_gwei |-> 2, mult_num |-> 5, mult_den |-> 2]
    ELSE [tip_gwei |-> 8, mult_num |-> 4, mult_den |-> 1]

\* What eth.fee_history can answer: a base fee, or the read fails.
BaseFeeOk(b)   == [ok |-> TRUE,  base |-> b]
BaseFeeFailed  == [ok |-> FALSE, base |-> 0]
BaseFeeAnswers == {BaseFeeOk(g * GweiScale) : g \in 0..MaxBaseGwei} \cup {BaseFeeFailed}

\* get_eip1559_fees: base (2 gwei when the read fails), priority, max_fee
get_eip1559_fees_SingleTip(ans, profile) ==
    LET base     == IF ans.ok THEN ans.base ELSE 2 * GweiScale
        priority == profile.tip_gwei * GweiScale
    IN  [base     |-> base,
         priority |-> priority,
         max_fee  |-> (base * profile.mult_num) \div profile.mult_den + priority]
get_eip1559_fees(ans, profile) ==
    LET base     == IF ans.ok THEN ans.base ELSE 2 * GweiScale
        priority == profile.tip_gwei * GweiScale
    IN  [base     |-> base,
         priority |-> priority,
         max_fee  |-> (base * profile.mult_num) \div profile.mult_den + priority * 2]

NoFeeCall == [ok |-> TRUE, chain |-> "l1", base |-> 0, priority |-> 0, max_fee |-> 0]

\* The fee quote asked on its own, for either network's profile, with any base fee
\* or a failed fee-history read.
FeeCall ==
    /\ \E h \in Handles, ans \in {BaseFeeOk(b) : b \in 0..MaxFeeBase} \cup {BaseFeeFailed} :
         LET q == get_eip1559_fees(ans, fee_profile(ChainName(h)))
         IN  fcall' = [ok |-> ans.ok, chain |-> h, base |-> q.base,
                       priority |-> q.priority, max_fee |-> q.max_fee]
    /\ UNCHANGED <<sendVars, waitVars, creditVars, gasVars, cycleVars, bridgeVars, ecall, flow>>

\* ensure_funds_for_tx: bal >= value + gas * max_fee_per_gas
EnsureFundsForTx_Strict(bal, value, gas, max_fee_per_gas) == bal > value + gas * max_fee_per_gas
EnsureFundsForTx(bal, value, gas, max_fee_per_gas) == bal >= value + gas * max_fee_per_gas

NoFundsCall == [bal |-> 0, value |-> 0, gas |-> 0, max_fee |-> 0, ok |-> TRUE]

\* The funds check called on its own: the node reports any balance, the caller
\* gives any value, gas and max fee.
FundsCall ==
    /\ \E bal \in 0..MaxFundsBal, value \in 0..MaxFundsArg, gas \in 0..MaxFundsArg,
          max_fee \in 0..MaxFundsArg :
         ecall' = [bal |-> bal, value |-> value, gas |-> gas, max_fee |-> max_fee,
                   ok |-> EnsureFundsForTx(bal, value, gas, max_fee)]
    /\ UNCHANGED <<sendVars, waitVars, creditVars, gasVars, cycleVars, bridgeVars, fcall, flow>>

----------------------------------------------------------------------------
(* The pending call: a Python dict, as a function on the keys it holds *)

EmptyTx == [k \in {} |-> 0]
HasKey(d, k) == k \in DOMAIN d
\* d.setdefault(k, v)
SetDefault_Overwrite(d, k, v) == (k :> v) @@ d
SetDefault(d, k, v) == IF HasKey(d, k) THEN d ELSE (k :> v) @@ d
\* d.get(k, v)
Get(d, k, v) == IF HasKey(d, k) THEN d[k] ELSE v
\* d[k] = v
Put(d, k, v) == (k :> v) @@ d

\* tx.get("data") and len(tx.get("data")) > 2, the data held as its length
HasPayload(d) == HasKey(d, "data") /\ d["data"] > 2
DefaultCap_Plain(d) == CAP_PLAIN
DefaultCap(d) == IF HasPayload(d) THEN CAP_DATA ELSE CAP_PLAIN

\* The calls the callers hand to build_and_send, none with a nonce of its own: a
\* plain transfer, a contract call, a call with its gas and fees pre-set.
TxInputs ==
    { [value |-> 5],
      [data |-> 10],
      [data |-> 2, gas |-> 21000,
       maxFeePerGas |-> 3 * GweiScale, maxPriorityFeePerGas |-> GweiScale] }

\* The estimates the node gives inside an operation: one below every cap, or none.
CallGasAnswers == {GasOk(21001), GasFailed}

\* Worst-case cost of the pending call, as build_and_send hands it to the check.
WorstCost(d) == Get(d, "value", 0) + d["gas"] * d["maxFeePerGas"]

\* The balances a funds check may read: nothing, just short, just enough; or the
\* read fails.
FundsReads(cost) ==
    {BalanceOk(b) : b \in {x \in {0, cost - 1, cost} : x >= 0}} \cup {BalanceFailed}

----------------------------------------------------------------------------
(* The node's answer to eth.send_raw_transaction *)

Accepted      == [ok |-> TRUE,  msg |-> <<>>]
Rejected(m)   == [ok |-> FALSE, msg |-> m]
RejectMessages ==
    { <<"replacement", "transaction", "underpriced">>,
      <<"transaction", "underpriced">>,
      <<"nonce", "too", "low">> }

\* "underpriced" in str(e), the message as its words
HasWord(msg, w) == \E i \in DOMAIN msg : msg[i] = w
IsUnderpriced(msg) == HasWord(msg, "underpriced")

\* The node accepts a transaction only while the run's bound allows one more.
BroadcastAnswers ==
    (IF Len(sent) < MaxSends THEN {Accepted} ELSE {})
        \cup {Rejected(m) : m \in RejectMessages}

\* quote_at (ghost): how many transactions had been broadcast when the fee quote
\* at hand for this submission was read from the node.
SentEntry(h, d, via, preset, target, quote_at) ==
    [chain |-> h, nonce |-> d["nonce"], via |-> via, preset |-> preset,
     target |-> target, quote_at |-> quote_at, rcpt |-> Pending]

----------------------------------------------------------------------------
(* build_and_send *)

\* REPLACE_BUMP = 1.25: int(fee * 1.25)
Bump_Shrink(x) == (x * 4) \div 5
Bump(x) == (x * 5) \div 4

\* chain.nonce += 1 after the first broadcast, and after the bumped one
NonceAfterSend_Kept(n) == n
NonceAfterSend(n) == n + 1
NonceAfterResend_Twice(n) == n + 2
NonceAfterResend(n) == n + 1

\* `if allow_speedup and ("underpriced" in str(e) or ...)`
MayRetry_WithoutOptIn(allow, msg) == IsUnderpriced(msg)
MayRetry(allow, msg) == allow /\ IsUnderpriced(msg)

\* The bumped broadcast is outside any loop: its rejection leaves the function.
AfterRetryRejected_Loop == "resend"
AfterRetryRejected == "raised"

\* `if not ok_again: raise RuntimeError(...)`
\* Line 432: the answer of wait_for_l2_credit is dropped; line 433 decides on the
\* second check alone.
SecondCheckDecides_Credit(credited, ok_again) == credited
SecondCheckDecides(credited, ok_again) == ok_again

RecheckRaises_Never(ok_again) == FALSE
RecheckRaises(ok_again) == ~ok_again

\* `return h`: the hash goes to the caller, which waits for its receipt before
\* anything else (lines 488-491, 567-568, 608-611, 632-635, 724-727, 856-859).
AfterAccepted_NoWait == "idle"
AfterAccepted == "returned"

\* covered (ghost): the balance read by the last funds check that passed, -1 before;
\* credit (ghost): what wait_for_l2_credit returned to this call, "none" before
NoGiven    == [tx |-> EmptyTx, est |-> GasFailed, quote_at |-> 0, covered |-> -1,
               credit |-> "none"]
NoRet      == [kind |-> "none",   error |-> <<>>]
Raise(err) == [kind |-> "raised", error |-> err]
Hash       == [kind |-> "hash",   error |-> <<>>]

\* Lines 411-425: the fee quote, the four setdefault calls, the gas estimate.
BuildAndSendCall(h, txin, allow) ==
    /\ pc = "idle"
    /\ \E fee \in BaseFeeAnswers, est \in CallGasAnswers :
       \E loss \in FloatLoss(est.est) :
         LET q  == get_eip1559_fees(fee, fee_profile(ChainName(h)))
             t1 == SetDefault(txin, "maxPriorityFeePerGas", q.priority)
             t2 == SetDefault(t1, "maxFeePerGas", q.max_fee)
             t3 == SetDefault(t2, "chainId", ChainId(h))
             t4 == SetDefault(t3, "nonce", nonce[h])
             t5 == IF HasKey(t4, "gas") THEN t4
                   ELSE Put(t4, "gas", EstimateAndCapGas(est, loss, DefaultCap(t4)))
         IN  /\ tx' = t5
             /\ given' = [tx |-> txin, est |-> est, quote_at |-> Len(sent), covered |-> -1,
                          credit |-> "none"]
             \* a pre-set gas makes the estimate's answer irrelevant: take one
             /\ HasKey(txin, "gas") => est = GasFailed
    /\ chain' = h
    /\ allow_speedup' = allow
    /\ nonce_at_call' = nonce[h]
    /\ attempts' = <<>>
    /\ fundsLog' = <<>>
    /\ ret' = NoRet
    /\ pc' = IF StartsWithGIWA(ChainName(h)) THEN "funds" ELSE "send"
    /\ UNCHANGED <<nonce, sent, nonce0, dist, waitVars, creditVars, gasVars, opVars>>

BuildAndSend ==
    \E h \in Handles, txin \in TxInputs, allow \in BOOLEAN : BuildAndSendCall(h, txin, allow)

\* build_and_send as a function of any dict: one with nothing pre-set, one with
\* every field pre-set (a nonce and a chain id of its own among them), one with
\* only its tip pre-set.
AnyTxInputs ==
    { [value |-> 5],
      [data |-> 2, gas |-> 21000, nonce |-> 9, chainId |-> 1,
       maxFeePerGas |-> 3 * GweiScale, maxPriorityFeePerGas |-> GweiScale],
      [data |-> 10, maxPriorityFeePerGas |-> 7] }

BuildAndSendAny ==
    \E h \in Handles, txin \in AnyTxInputs, allow \in BOOLEAN : BuildAndSendCall(h, txin, allow)

\* Line 428: the first balance check on the L2-style network.
FundsCheck ==
    /\ pc = "funds"
    /\ \E read \in FundsReads(WorstCost(tx)) :
         IF ~read.ok
         THEN /\ ret' = Raise(<<"rpc">>)
              /\ pc' = "raised"
              /\ UNCHANGED <<fundsLog, given>>
         ELSE LET ok == EnsureFundsForTx(read.bal, Get(tx, "value", 0), tx["gas"],
                                         tx["maxFeePerGas"])
              IN  /\ fundsLog' = Append(fundsLog, ok)
                  /\ given' = [given EXCEPT !.covered = IF ok THEN read.bal ELSE @]
                  /\ pc' = IF ok THEN "send" ELSE "bal_before"
                  /\ UNCHANGED ret
    /\ UNCHANGED <<nonce, chain, tx, allow_speedup, nonce_at_call, attempts, sent, nonce0,
                   dist, waitVars, creditVars, gasVars, opVars>>

\* Lines 430-432: bal_before is read and wait_for_l2_credit entered with its defaults.
ReadBalBefore ==
    /\ pc = "bal_before"
    /\ \E read \in FundsReads(WorstCost(tx)) :
         IF ~read.ok
         THEN /\ ret' = Raise(<<"rpc">>)
              /\ pc' = "raised"
              /\ UNCHANGED creditVars
         ELSE /\ CreditBegin(read.bal, DefaultMinDelta, CREDIT_TIMEOUT)
              /\ pc' = "credit"
              /\ UNCHANGED ret
    /\ UNCHANGED <<nonce, chain, tx, allow_speedup, given, nonce_at_call, fundsLog, attempts, sent,
                   nonce0, dist, waitVars, gasVars, opVars>>

\* wait_for_l2_credit's loop, inside build_and_send.  A poll's round trip is taken
\* to be SlowPoll here, so that a wait with the default timeout makes few polls; the
\* answers it can return are the same, and SpecCredit checks the wait with every latency.
CallCreditPoll ==
    /\ pc = "credit"
    /\ \E read \in CreditReads : CreditPollStep(read, SlowPoll)
    /\ UNCHANGED <<sendVars, waitVars, gasVars, opVars>>

CallCreditTimeout ==
    /\ pc = "credit"
    /\ CreditExpire
    /\ UNCHANGED <<sendVars, waitVars, gasVars, opVars>>

\* wait_for_l2_credit has returned: its locals and ghosts are cleared.
DropCredit ==
    /\ cpc' = "off" /\ cbefore' = 0 /\ cdelta' = 0 /\ ctimeout' = 0 /\ celapsed' = 0
    /\ cresult' = "pending" /\ cseen' = FALSE /\ cpolls' = 0

\* Lines 432-435: the wait's answer is dropped; the balance is checked again.
FundsRecheck ==
    /\ pc = "credit"
    /\ cpc = "done"
    /\ IF cresult = "raised"
       THEN /\ ret' = Raise(<<"rpc">>)
            /\ pc' = "raised"
            /\ given' = [given EXCEPT !.credit = cresult]
            /\ UNCHANGED fundsLog
       ELSE \E read \in FundsReads(WorstCost(tx)) :
              IF ~read.ok
              THEN /\ ret' = Raise(<<"rpc">>)
                   /\ pc' = "raised"
                   /\ given' = [given EXCEPT !.credit = cresult]
                   /\ UNCHANGED fundsLog
              ELSE LET ok_again == EnsureFundsForTx(read.bal, Get(tx, "value", 0),
                                                    tx["gas"], tx["maxFeePerGas"])
                   IN  /\ fundsLog' = Append(fundsLog, ok_again)
                       /\ given' = [given EXCEPT !.credit = cresult,
                                                 !.covered = IF ok_again THEN read.bal ELSE @]
                       /\ IF RecheckRaises(SecondCheckDecides(cresult = "true", ok_again))
                          THEN /\ ret' = Raise(<<"insufficient">>)
                               /\ pc' = "raised"
                          ELSE /\ pc' = "send"
                               /\ UNCHANGED ret
    /\ DropCredit
    /\ UNCHANGED <<nonce, chain, tx, allow_speedup, nonce_at_call, attempts, sent, nonce0,
                   dist, waitVars, gasVars, opVars>>

\* Lines 437-447 and 453: sign, broadcast; on acceptance the nonce advances and the
\* hash is returned; on an underpriced rejection with allow_speedup the fees are
\* bumped; any other rejection is re-raised.
SendFirst ==
    /\ pc = "send"
    /\ \E ans \in BroadcastAnswers :
         /\ attempts' = Append(attempts, [tx |-> tx, answer |-> ans])
         /\ IF ans.ok
            THEN /\ nonce' = [nonce EXCEPT ![chain] = NonceAfterSend(@)]
                 /\ sent' = Append(sent, SentEntry(chain, tx, "build_and_send",
                                                   tx["nonce"] # nonce_at_call, 0,
                                                   given.quote_at))
                 /\ ret' = Hash
                 /\ pc' = AfterAccepted
                 /\ UNCHANGED tx
            ELSE IF MayRetry(allow_speedup, ans.msg)
            THEN /\ tx' = Put(Put(tx, "maxPriorityFeePerGas", Bump(tx["maxPriorityFeePerGas"])),
                              "maxFeePerGas", Bump(tx["maxFeePerGas"]))
                 /\ pc' = "resend"
                 /\ UNCHANGED <<nonce, sent, ret>>
            ELSE /\ ret' = Raise(ans.msg)
                 /\ pc' = "raised"
                 /\ UNCHANGED <<nonce, sent, tx>>
    /\ UNCHANGED <<chain, allow_speedup, given, nonce_at_call, fundsLog, nonce0, dist,
                   waitVars, creditVars, gasVars, opVars>>

\* Lines 448-452: the bumped transaction is signed and broadcast, once.
SendRetry ==
    /\ pc = "resend"
    /\ \E ans \in BroadcastAnswers :
         /\ attempts' = Append(attempts, [tx |-> tx, answer |-> ans])
         /\ IF ans.ok
            THEN /\ nonce' = [nonce EXCEPT ![chain] = NonceAfterResend(@)]
                 /\ sent' = Append(sent, SentEntry(chain, tx, "build_and_send",
                                                   tx["nonce"] # nonce_at_call, 0,
                                                   given.quote_at))
                 /\ ret' = Hash
                 /\ pc' = AfterAccepted
            ELSE /\ ret' = Raise(ans.msg)
                 /\ pc' = AfterRetryRejected
                 /\ UNCHANGED <<nonce, sent>>
    /\ UNCHANGED <<chain, tx, allow_speedup, given, nonce_at_call, fundsLog, nonce0, dist,
                   waitVars, creditVars, gasVars, opVars>>

\* The frame of build_and_send is gone: its locals and ghosts are cleared.
DropCall ==
    /\ chain' = "l1"
    /\ tx' = EmptyTx
    /\ allow_speedup' = FALSE
    /\ given' = NoGiven
    /\ ret' = NoRet
    /\ nonce_at_call' = 0
    /\ fundsLog' = <<>>
    /\ attempts' = <<>>

\* The wait has returned: its locals and ghosts are cleared.
DropWait ==
    /\ wpc' = "off" /\ wtimeout' = 0 /\ welapsed' = 0 /\ last_err' = "None"
    /\ wresult' = Pending /\ wfirst' = Pending /\ wlate' = FALSE /\ wpolls' = 0

\* The exception leaves build_and_send and its caller's operation.
CallerAfterRaise ==
    /\ pc = "raised"
    /\ pc' = "idle"
    /\ DropCall
    /\ UNCHANGED <<nonce, sent, nonce0, dist, waitVars, creditVars, gasVars, opVars>>

\* Every caller waits for the receipt of the hash it got (as l2_self_transfer_eth,
\* lines 856-861): wait_receipt_with_progress with the default timeout.
CallerWaitBegin ==
    /\ pc = "returned"
    /\ WaitBegin(TX_WAIT_TIMEOUT)
    /\ pc' = "wait"
    /\ DropCall
    /\ UNCHANGED <<nonce, sent, nonce0, dist, creditVars, gasVars, opVars>>

\* The wait's loop inside an operation, a poll's round trip taken to be SlowPoll.
CallerWaitPoll ==
    /\ pc \in {"wait", "d_wait1", "d_wait2"}
    /\ \E out \in PollOutcomes : WaitPollStep(out, SlowPoll)
    /\ UNCHANGED <<sendVars, creditVars, gasVars, opVars>>

CallerWaitTimeout ==
    /\ pc \in {"wait", "d_wait1", "d_wait2"}
    /\ WaitExpire
    /\ UNCHANGED <<sendVars, creditVars, gasVars, opVars>>

\* The receipt the wait returned belongs to the last transaction sent.
WithReceipt(log, r) == [log EXCEPT ![Len(log)].rcpt = r]

\* `if not rcpt or rcpt["status"] != 1: raise ...`: either way the operation ends.
CallerWaitEnd ==
    /\ pc = "wait"
    /\ wpc = "done"
    /\ sent' = WithReceipt(sent, wresult)
    /\ pc' = "idle"
    /\ DropWait
    /\ UNCHANGED <<nonce, chain, tx, allow_speedup, given, ret, nonce_at_call, fundsLog, attempts,
                   nonce0, dist, creditVars, gasVars, opVars>>

----------------------------------------------------------------------------
(* distribute_and_bridge, on the l1 handle *)

NoDist == [idx |-> 0, n |-> 0, priority |-> 0, max_fee |-> 0, quote_at |-> 0, tx |-> EmptyTx,
           outcome |-> "none"]

AMOUNT_ETH_PER_TARGET == AMOUNT_GWEI_PER_TARGET * GweiScale
\* int(AMOUNT_ETH_PER_TARGET * BRIDGE_FRACTION), BRIDGE_FRACTION = 0.5
BridgeAmount == AMOUNT_ETH_PER_TARGET \div 2

\* l1.nonce += 1 after the transfer (line 1118) and after the deposit (line 1161)
NonceAfterTransfer_Kept(n) == n
NonceAfterTransfer(n) == n + 1
NonceAfterDeposit(n) == n + 1

\* The loop moves to the next target, or ends after the last.
DistAdvance(d) ==
    IF d.idx < d.n
    THEN [d EXCEPT !.idx = d.idx + 1, !.tx = EmptyTx]
    ELSE [d EXCEPT !.outcome = "done", !.tx = EmptyTx]
DistAdvancePc(d) == IF d.idx < d.n THEN "d_transfer" ELSE "d_end"

\* Lines 1062-1081: the targets, and one fee quote for the whole batch.
DistCall ==
    /\ pc = "idle"
    /\ \E n \in 1..MaxTargets, fee \in BaseFeeAnswers :
         LET q == get_eip1559_fees(fee, fee_profile(ChainName("l1")))
         IN  dist' = [idx |-> 1, n |-> n, priority |-> q.priority, max_fee |-> q.max_fee,
                      quote_at |-> Len(sent),
                      tx |-> EmptyTx, outcome |-> "running"]
    /\ pc' = "d_transfer"
    /\ UNCHANGED <<nonce, chain, tx, allow_speedup, given, ret, nonce_at_call, fundsLog, attempts,
                   sent, nonce0, waitVars, creditVars, gasVars, opVars>>

\* Lines 1092-1104: tx1 is built with the handle's nonce; a short balance raises.
DistTransfer ==
    /\ pc = "d_transfer"
    /\ LET tx1 == [value |-> AMOUNT_ETH_PER_TARGET, chainId |-> ChainId("l1"),
                   nonce |-> nonce["l1"], maxPriorityFeePerGas |-> dist.priority,
                   maxFeePerGas |-> dist.max_fee, gas |-> TRANSFER_GAS]
       IN  \E read \in FundsReads(WorstCost(tx1)) :
             IF read.ok /\ EnsureFundsForTx(read.bal, tx1["value"], tx1["gas"],
                                            tx1["maxFeePerGas"])
             THEN /\ dist' = [dist EXCEPT !.tx = tx1]
                  /\ pc' = "d_send1"
             ELSE /\ dist' = [dist EXCEPT !.outcome = "raised"]
                  /\ pc' = "d_end"
    /\ UNCHANGED <<nonce, chain, tx, allow_speedup, given, ret, nonce_at_call, fundsLog, attempts,
                   sent, nonce0, waitVars, creditVars, gasVars, opVars>>

\* A broadcast of distribute_and_bridge (lines 1106-1118 and 1149-1161): `first` is
\* the attempt inside the try, the other the bumped one inside the except.  On
\* acceptance the nonce advances and the wait for the receipt begins.
DistBroadcast(first, retry, waiting, via) ==
    /\ \E ans \in BroadcastAnswers :
         IF ans.ok
         THEN /\ nonce' = [nonce EXCEPT !["l1"] =
                              IF via = "transfer" THEN NonceAfterTransfer(@)
                                                  ELSE NonceAfterDeposit(@)]
              /\ sent' = Append(sent, SentEntry("l1", dist.tx, via, FALSE, dist.idx,
                                                dist.quote_at))
              /\ WaitBegin(TX_WAIT_TIMEOUT)
              /\ pc' = waiting
              /\ UNCHANGED dist
         ELSE IF first /\ IsUnderpriced(ans.msg)
         THEN /\ dist' = [dist EXCEPT !.tx =
                            Put(Put(dist.tx, "maxPriorityFeePerGas",
                                    Bump(dist.tx["maxPriorityFeePerGas"])),
                                "maxFeePerGas", Bump(dist.tx["maxFeePerGas"]))]
              /\ pc' = retry
              /\ UNCHANGED <<nonce, sent, waitVars>>
         ELSE /\ dist' = [dist EXCEPT !.outcome = "raised"]
              /\ pc' = "d_end"
              /\ UNCHANGED <<nonce, sent, waitVars>>
    /\ UNCHANGED <<chain, tx, allow_speedup, given, ret, nonce_at_call, fundsLog, attempts,
                   nonce0, creditVars, gasVars, opVars>>

DistSendTransfer ==
    /\ pc = "d_send1"
    /\ DistBroadcast(TRUE, "d_resend1", "d_wait1", "transfer")
DistRetryTransfer ==
    /\ pc = "d_resend1"
    /\ DistBroadcast(FALSE, "d_resend1", "d_wait1", "transfer")
DistSendDeposit ==
    /\ pc = "d_send2"
    /\ DistBroadcast(TRUE, "d_resend2", "d_wait2", "deposit")
DistRetryDeposit ==
    /\ pc = "d_resend2"
    /\ DistBroadcast(FALSE, "d_resend2", "d_wait2", "deposit")

\* `if not rcpt1 or rcpt1["status"] != 1:` (line 1122)
TransferFailed_OnlyAbsent(r) == r = NoneResult
TransferFailed(r) == r = NoneResult \/ r.status # 1

\* Lines 1121-1124: without a successful receipt the loop continues with the next target.
DistAfterTransfer ==
    /\ pc = "d_wait1"
    /\ wpc = "done"
    /\ sent' = WithReceipt(sent, wresult)
    /\ IF ~TransferFailed(wresult)
       THEN /\ pc' = "d_deposit"
            /\ UNCHANGED dist
       ELSE /\ pc' = DistAdvancePc(dist)
            /\ dist' = DistAdvance(dist)
    /\ DropWait
    /\ UNCHANGED <<nonce, chain, tx, allow_speedup, given, ret, nonce_at_call, fundsLog, attempts,
                   nonce0, creditVars, gasVars, opVars>>

\* Lines 1130-1147: tx2 is built with the handle's nonce and the batch's fee quote;
\* build_transaction may have filled the gas, else it is estimated and capped; a
\* short balance skips the deposit.
DistDeposit ==
    /\ pc = "d_deposit"
    /\ \E filled \in BOOLEAN, est \in CallGasAnswers :
       \E loss \in FloatLoss(est.est) :
         LET t0  == [data |-> 10, value |-> BridgeAmount, nonce |-> nonce["l1"],
                     chainId |-> ChainId("l1"), maxPriorityFeePerGas |-> dist.priority,
                     maxFeePerGas |-> dist.max_fee]
             tx2 == IF filled THEN Put(t0, "gas", TRANSFER_GAS * 2)
                    ELSE Put(t0, "gas", EstimateAndCapGas(est, loss, DEPOSIT_GAS_CAP))
         IN  /\ filled => est = GasFailed
             /\ \E read \in FundsReads(WorstCost(tx2)) :
                  IF ~read.ok
                  THEN /\ dist' = [dist EXCEPT !.outcome = "raised"]
                       /\ pc' = "d_end"
                  ELSE IF EnsureFundsForTx(read.bal, tx2["value"], tx2["gas"],
                                           tx2["maxFeePerGas"])
                  THEN /\ dist' = [dist EXCEPT !.tx = tx2]
                       /\ pc' = "d_send2"
                  ELSE /\ pc' = DistAdvancePc(dist)
                       /\ dist' = DistAdvance(dist)
    /\ UNCHANGED <<nonce, chain, tx, allow_speedup, given, ret, nonce_at_call, fundsLog, attempts,
                   sent, nonce0, waitVars, creditVars, gasVars, opVars>>

\* Lines 1164-1169: either way the loop goes on to the next target.
DistAfterDeposit ==
    /\ pc = "d_wait2"
    /\ wpc = "done"
    /\ sent' = WithReceipt(sent, wresult)
    /\ pc' = DistAdvancePc(dist)
    /\ dist' = DistAdvance(dist)
    /\ DropWait
    /\ UNCHANGED <<nonce, chain, tx, allow_speedup, given, ret, nonce_at_call, fundsLog, attempts,
                   nonce0, creditVars, gasVars, opVars>>

\* distribute_and_bridge returns, or its exception leaves it.
DistReturn ==
    /\ pc = "d_end"
    /\ dist' = NoDist
    /\ pc' = "idle"
    /\ UNCHANGED <<nonce, chain, tx, allow_speedup, given, ret, nonce_at_call, fundsLog, attempts,
                   sent, nonce0, waitVars, creditVars, gasVars, opVars>>

----------------------------------------------------------------------------
(* The ERC-20 helpers and the bridge operations.  Token amounts are in whole      *)
(* tokens (10^18 units).  Inside these operations build_and_send is one step with *)
(* its two outcomes (a hash, the nonce one higher; or an exception, nothing        *)
(* sent), and wait_receipt_with_progress one step with its three (a receipt of     *)
(* either status, or None).                                                       *)

\* Chain objects made inside an operation (withdraw_erc20_to_l1, lines 663-669).
TempHandles == {"temp_l1"}

\* A frame: the function, where it stands, its handle, its amount, a balance it read.
Frame(fn, step, h, amount) == [fn |-> fn, step |-> step, h |-> h, amount |-> amount, bal |-> 0]
Top == stack[Len(stack)]
Callers == SubSeq(stack, 1, Len(stack) - 1)

NoOpRet      == [kind |-> "none", val |-> 0]
Returned(v)  == [kind |-> "returned", val |-> v]
OpRaised     == [kind |-> "raised", val |-> 0]
\* Python's True, False and None as returned values
PyTrue  == 1
PyFalse == 0
PyNone  == 0

\* ghost record of the running operation; -1 stands for "not read"
NoLog ==
    [op |-> "none", result |-> "none", txs |-> <<>>, nonce_start |-> <<>>,
     main_rcpt |-> Pending,
     c_bal |-> -1, c_required |-> 0, c_faucet |-> "none", c_result |-> "none",
     c_txs0 |-> 0, c_txs1 |-> 0, c_nonce0 |-> 0, c_nonce1 |-> 0, c_reread |-> -1,
     a_min |-> 0, a_txs |-> 0, a_seen |-> -1, a_rcpt |-> Pending, a_prev |-> [min |-> 0, txs |-> 0, result |-> "none"],
     d_requested |-> 0, d_reread |-> -1, d_fail |-> "none",
     w_requested |-> 0, w_bal |-> -1, w_eth |-> -1, w_recovery |-> "none"]

\* The frame on top ends: its caller goes on, or the operation is over.
EndFrame(r, lg) ==
    /\ stack' = Callers
    /\ opret' = r
    /\ oplog' = IF Len(stack) = 1
              THEN [lg EXCEPT !.result = IF r.kind = "raised" THEN "raised" ELSE "returned"]
              ELSE lg

\* The frame on top moves to another step.
Goto(step) == stack' = [stack EXCEPT ![Len(stack)].step = step]

\* The frame on top calls another function and will go on at `step`.
Call(step, callee) == stack' = Append([stack EXCEPT ![Len(stack)].step = step], callee)

\* balanceOf(...).call(): a balance in whole tokens, or the call fails.
TokenReads == {BalanceOk(b) : b \in {0, PartTokens, ERC20_TOKENS}} \cup {BalanceFailed}

\* The node accepts a transaction of a handle only while the run's bound allows.
OpBroadcastAnswers(h) ==
    (IF nonce[h] < nonce0[h] + MaxSends THEN {Accepted} ELSE {})
        \cup {Rejected(m) : m \in RejectMessages}

\* build_and_send(chain, tx, allow_speedup=True) as one step: whether it returns a
\* hash, given that everything before the signature went through (built) and the
\* node's answers to the first broadcast and to the bumped one.
BuildAndSendAccepts(built, a1, a2) ==
    built /\ (a1.ok \/ (MayRetry(TRUE, a1.msg) /\ a2.ok))

\* The broadcast recorded by the running operation.
OpTx(via, h, amount) == [via |-> via, chain |-> h, nonce |-> nonce[h], amount |-> amount]

\* What wait_receipt_with_progress returns.
WaitOutcomes == {Receipt(1), Receipt(0), NoneResult}

\* `if not rcpt or rcpt["status"] != 1`
ReceiptBad_OnlyAbsent(r) == r = NoneResult
ReceiptBad(r) == r = NoneResult \/ r.status # 1

----------------------------------------------------------------------------
(* check_and_claim_erc20_balance *)

\* `if balance >= required_amount: return True` (line 478)
BalanceSuffices_Never(balance, required) == FALSE
BalanceSuffices(balance, required) == balance >= required

\* The function ends: the ghost keeps its answer and what had been sent by then.
ClaimEnd(r, lg) ==
    EndFrame(r, [lg EXCEPT !.c_result = IF r.kind = "raised" THEN "raised"
                                        ELSE IF r.val = PyTrue THEN "true" ELSE "false",
                           !.c_txs1 = Len(lg.txs),
                           !.c_nonce1 = nonce[Top.h]])

\* Lines 463-482: the balance is read (outside any try) and compared.
ClaimStart ==
    /\ Len(stack) > 0
    /\ Top.fn = "claim" /\ Top.step = "start"
    /\ \E read \in TokenReads :
         LET lg == [oplog EXCEPT !.c_bal = IF read.ok THEN read.bal ELSE -1,
                               !.c_required = Top.amount, !.c_faucet = "none",
                               !.c_result = "running", !.c_txs0 = Len(oplog.txs),
                               !.c_txs1 = Len(oplog.txs), !.c_nonce0 = nonce[Top.h],
                               !.c_nonce1 = nonce[Top.h], !.c_reread = -1]
         IN  IF ~read.ok THEN ClaimEnd(OpRaised, lg)
             ELSE IF BalanceSuffices(read.bal, Top.amount)
             THEN ClaimEnd(Returned(PyTrue), lg)
             ELSE /\ stack' = [stack EXCEPT ![Len(stack)].step = "faucet",
                                            ![Len(stack)].bal = read.bal]
                  /\ oplog' = lg
                  /\ UNCHANGED opret
    /\ UNCHANGED <<sendVars, waitVars, creditVars, gasVars, feeVars, cycleVars, allowance>>

\* `if balance > 0: return True` else False, in the except branch (lines 520-525)
FallbackOnBalance(balance) == IF balance > 0 THEN PyTrue ELSE PyFalse

\* Lines 485-488 and 512-525: the claimFaucet call is built and sent; an exception
\* falls back on the balance read at the start.
ClaimFaucet ==
    /\ Len(stack) > 0
    /\ Top.fn = "claim" /\ Top.step = "faucet"
    /\ \E built \in BOOLEAN, a1 \in OpBroadcastAnswers(Top.h), a2 \in OpBroadcastAnswers(Top.h) :
         IF BuildAndSendAccepts(built, a1, a2)
         THEN /\ nonce' = [nonce EXCEPT ![Top.h] = NonceAfterSend(@)]
              /\ oplog' = [oplog EXCEPT !.txs = Append(@, OpTx("claimFaucet", Top.h, 0))]
              /\ Goto("faucet_wait")
              /\ UNCHANGED opret
         ELSE /\ ClaimEnd(Returned(FallbackOnBalance(Top.bal)),
                          [oplog EXCEPT !.c_faucet = "raised"])
              /\ UNCHANGED nonce
    /\ UNCHANGED <<pc, chain, tx, allow_speedup, given, ret, nonce_at_call, fundsLog, attempts, sent,
                   nonce0, dist, waitVars, creditVars, gasVars, feeVars, cycleVars, allowance>>

\* Lines 502-510: `if new_balance >= required_amount: return True`, else
\* `return new_balance > 0`
AfterClaim_NeedsAll(new_balance, required) ==
    IF new_balance >= required THEN PyTrue ELSE PyFalse
AfterClaim(new_balance, required) ==
    IF new_balance >= required THEN PyTrue
    ELSE IF new_balance > 0 THEN PyTrue ELSE PyFalse

\* Lines 491-510: the receipt; then the balance is read again (inside the try).
ClaimFaucetWait ==
    /\ Len(stack) > 0
    /\ Top.fn = "claim" /\ Top.step = "faucet_wait"
    /\ \E rcpt \in WaitOutcomes, read \in TokenReads :
         IF ReceiptBad(rcpt)
         THEN ClaimEnd(Returned(PyFalse),
                       [oplog EXCEPT !.c_faucet = IF rcpt = NoneResult THEN "no_receipt"
                                                ELSE "failed_receipt"])
         ELSE IF ~read.ok
         THEN ClaimEnd(Returned(FallbackOnBalance(Top.bal)), [oplog EXCEPT !.c_faucet = "claimed"])
         ELSE ClaimEnd(Returned(AfterClaim(read.bal, Top.amount)),
                       [oplog EXCEPT !.c_faucet = "claimed", !.c_reread = read.bal])
    /\ UNCHANGED <<sendVars, waitVars, creditVars, gasVars, feeVars, cycleVars, allowance>>

----------------------------------------------------------------------------
(* get_erc20_balance is the call TokenReads answers; ensure_allowance *)

\* allowance(...).call(): the token's allowance, or the call fails.
AllowanceReads == {BalanceOk(allowance), BalanceFailed}

\* `if current >= min_amount: return None` (line 557)
AllowanceSuffices_Never(current, min_amount) == FALSE
AllowanceSuffices(current, min_amount) == current >= min_amount

\* approve_amount = max(min_amount * 10, to_wei("1000000", "ether"))
ApproveAmount(min_amount) == Max(min_amount * 10, APPROVE_FLOOR_TOKENS)

\* Lines 542-559: the allowance is read and compared.
AllowStart ==
    /\ Len(stack) > 0
    /\ Top.fn = "allow" /\ Top.step = "start"
    /\ \E read \in AllowanceReads :
         LET lg == [oplog EXCEPT !.a_seen = IF read.ok THEN read.bal ELSE -1,
                                 !.a_rcpt = Pending]
         IN  IF ~read.ok THEN EndFrame(OpRaised, lg)
             ELSE IF AllowanceSuffices(read.bal, Top.amount)
             THEN EndFrame(Returned(PyNone), lg)
             ELSE /\ Goto("approve")
                  /\ oplog' = lg
                  /\ UNCHANGED opret
    /\ UNCHANGED <<sendVars, waitVars, creditVars, gasVars, feeVars, cycleVars, allowance>>

\* Lines 564-567: the approval is built and sent; an exception leaves the function.
AllowApprove ==
    /\ Len(stack) > 0
    /\ Top.fn = "allow" /\ Top.step = "approve"
    /\ \E built \in BOOLEAN, a1 \in OpBroadcastAnswers(Top.h), a2 \in OpBroadcastAnswers(Top.h) :
         IF BuildAndSendAccepts(built, a1, a2)
         THEN /\ nonce' = [nonce EXCEPT ![Top.h] = NonceAfterSend(@)]
              /\ oplog' = [oplog EXCEPT
                             !.txs = Append(@, OpTx("approve", Top.h, ApproveAmount(Top.amount))),
                             !.a_txs = @ + 1]
              /\ Goto("approve_wait")
              /\ UNCHANGED opret
         ELSE /\ EndFrame(OpRaised, oplog)
              /\ UNCHANGED nonce
    /\ UNCHANGED <<pc, chain, tx, allow_speedup, given, ret, nonce_at_call, fundsLog, attempts, sent,
                   nonce0, dist, waitVars, creditVars, gasVars, feeVars, cycleVars, allowance>>

\* Lines 568-574: the receipt.  A successful receipt means the token has recorded
\* the approved amount.
AllowWait ==
    /\ Len(stack) > 0
    /\ Top.fn = "allow" /\ Top.step = "approve_wait"
    /\ \E rcpt \in WaitOutcomes :
         IF ReceiptBad(rcpt)
         THEN /\ EndFrame(OpRaised, [oplog EXCEPT !.a_rcpt = rcpt])
              /\ UNCHANGED allowance
         ELSE /\ allowance' = ApproveAmount(Top.amount)
              /\ EndFrame(Returned(PyTrue), [oplog EXCEPT !.a_rcpt = rcpt])
    /\ UNCHANGED <<sendVars, waitVars, creditVars, gasVars, feeVars, cycleVars>>

----------------------------------------------------------------------------
(* deposit_erc20_to_l2 *)

\* Lines 590-594: the amount is clamped to the balance just read.
ClampAmount_Keep(amount, actual_balance) == amount
ClampAmount(amount, actual_balance) == IF actual_balance < amount THEN actual_balance ELSE amount

\* Line 585: the balance check, with its faucet claim.
DepositStart ==
    /\ Len(stack) > 0
    /\ Top.fn = "deposit" /\ Top.step = "start"
    /\ Call("after_claim", Frame("claim", "start", Top.h, Top.amount))
    /\ oplog' = [oplog EXCEPT !.d_requested = Top.amount, !.d_reread = -1, !.d_fail = "none"]
    /\ UNCHANGED <<sendVars, waitVars, creditVars, gasVars, feeVars, cycleVars, allowance, opret>>

\* Lines 585-600: a false answer raises; else the balance is read again, the amount
\* clamped (zero raises), and ensure_allowance called with the clamped amount.
DepositAfterClaim ==
    /\ Len(stack) > 0
    /\ Top.fn = "deposit" /\ Top.step = "after_claim"
    /\ IF opret.kind = "raised"
       THEN EndFrame(OpRaised, [oplog EXCEPT !.d_fail = "rpc"])
       ELSE IF opret.val = PyFalse
       THEN EndFrame(OpRaised, [oplog EXCEPT !.d_fail = "claim_false"])
       ELSE \E read \in TokenReads :
              IF ~read.ok
              THEN EndFrame(OpRaised, [oplog EXCEPT !.d_fail = "rpc"])
              ELSE LET amount == ClampAmount(Top.amount, read.bal)
                       lg == [oplog EXCEPT !.d_reread = read.bal]
                   IN  IF amount = 0
                       THEN EndFrame(OpRaised, [lg EXCEPT !.d_fail = "zero"])
                       ELSE /\ stack' = Append([stack EXCEPT ![Len(stack)].step = "after_allow",
                                                             ![Len(stack)].amount = amount],
                                               Frame("allow", "start", Top.h, amount))
                            /\ oplog' = lg
                            /\ opret' = NoOpRet
    /\ UNCHANGED <<sendVars, waitVars, creditVars, gasVars, feeVars, cycleVars, allowance>>

\* ensure_allowance is called outside any try (line 600): its exception is the
\* deposit's.
AllowanceRaised_Swallowed(r) == FALSE
AllowanceRaised(r) == r.kind = "raised"

\* Lines 600-608: ensure_allowance's exception leaves the function; else the
\* depositERC20To call is built and sent.
DepositSend ==
    /\ Len(stack) > 0
    /\ Top.fn = "deposit" /\ Top.step = "after_allow"
    /\ IF AllowanceRaised(opret)
       THEN /\ EndFrame(OpRaised, [oplog EXCEPT !.d_fail = "allowance"])
            /\ UNCHANGED nonce
       ELSE \E built \in BOOLEAN, a1 \in OpBroadcastAnswers(Top.h),
               a2 \in OpBroadcastAnswers(Top.h) :
              IF BuildAndSendAccepts(built, a1, a2)
              THEN /\ nonce' = [nonce EXCEPT ![Top.h] = NonceAfterSend(@)]
                   /\ oplog' = [oplog EXCEPT
                                  !.txs = Append(@, OpTx("depositERC20To", Top.h, Top.amount)),
                                  !.main_rcpt = Pending]
                   /\ Goto("wait")
                   /\ opret' = NoOpRet
              ELSE /\ EndFrame(OpRaised, [oplog EXCEPT !.d_fail = "send"])
                   /\ UNCHANGED nonce
    /\ UNCHANGED <<pc, chain, tx, allow_speedup, given, ret, nonce_at_call, fundsLog, attempts, sent,
                   nonce0, dist, waitVars, creditVars, gasVars, feeVars, cycleVars, allowance>>

\* Lines 611-621: the receipt; after a successful one the remaining balance is read.
DepositWait ==
    /\ Len(stack) > 0
    /\ Top.fn = "deposit" /\ Top.step = "wait"
    /\ \E rcpt \in WaitOutcomes, read \in {BalanceOk(0), BalanceFailed} :
         LET lg == [oplog EXCEPT !.main_rcpt = rcpt]
         IN  /\ IF ReceiptBad(rcpt)
                THEN EndFrame(OpRaised, [lg EXCEPT !.d_fail = "receipt"])
                ELSE IF ~read.ok
                THEN EndFrame(OpRaised, [lg EXCEPT !.d_fail = "rpc"])
                ELSE EndFrame(Returned(PyNone), lg)
             \* a confirmed deposit has drawn its amount from the allowance
             /\ allowance' = IF rcpt = Receipt(1) THEN Max(allowance - Top.amount, 0)
                             ELSE allowance
    /\ UNCHANGED <<sendVars, waitVars, creditVars, gasVars, feeVars, cycleVars>>

----------------------------------------------------------------------------
(* withdraw_eth_to_l1_via_message_passer and l2_self_transfer_eth *)

\* Lines 627-632 and 855-856: the call is built and sent.
SimpleSend ==
    /\ Len(stack) > 0
    /\ Top.fn \in {"withdraw_eth", "self_transfer"} /\ Top.step = "start"
    /\ \E built \in BOOLEAN, a1 \in OpBroadcastAnswers(Top.h), a2 \in OpBroadcastAnswers(Top.h) :
         IF BuildAndSendAccepts(built, a1, a2)
         THEN /\ nonce' = [nonce EXCEPT ![Top.h] = NonceAfterSend(@)]
              /\ oplog' = [oplog EXCEPT
                             !.txs = Append(@, OpTx(IF Top.fn = "withdraw_eth"
                                                    THEN "initiateWithdrawal" ELSE "transfer",
                                                    Top.h, Top.amount))]
              /\ Goto("wait")
              /\ UNCHANGED opret
         ELSE /\ EndFrame(OpRaised, oplog)
              /\ UNCHANGED nonce
    /\ UNCHANGED <<pc, chain, tx, allow_speedup, given, ret, nonce_at_call, fundsLog, attempts, sent,
                   nonce0, dist, waitVars, creditVars, gasVars, feeVars, cycleVars, allowance>>

\* Lines 635-640 and 859-863: the receipt.
SimpleWait ==
    /\ Len(stack) > 0
    /\ Top.fn \in {"withdraw_eth", "self_transfer"} /\ Top.step = "wait"
    /\ \E rcpt \in WaitOutcomes :
         LET lg == [oplog EXCEPT !.main_rcpt = rcpt]
         IN  IF ReceiptBad(rcpt) THEN EndFrame(OpRaised, lg)
             ELSE EndFrame(Returned(PyNone), lg)
    /\ UNCHANGED <<sendVars, waitVars, creditVars, gasVars, feeVars, cycleVars, allowance>>

----------------------------------------------------------------------------
(* withdraw_erc20_to_l1 *)

\* eth.get_balance on L1, in wei: nothing, just below the threshold, the threshold.
RecoveryMin == RECOVERY_MIN_GWEI * GweiScale
EthReads == {BalanceOk(b) : b \in {0, RecoveryMin - 1, RecoveryMin}} \cup {BalanceFailed}

\* `if l1_eth_balance < to_wei("0.01", "ether"): raise` (line 657)
RecoveryAffordable_Always(l1_eth_balance) == TRUE
RecoveryAffordable(l1_eth_balance) == l1_eth_balance >= RecoveryMin

\* `if actual_balance == 0:` (line 649)
NeedsRecovery_Never(actual_balance) == FALSE
NeedsRecovery(actual_balance) == actual_balance = 0

\* Lines 647-649 and 708-710: the L2 token balance is read; a zero balance starts
\* the recovery, any other clamps the amount.
WithdrawStart ==
    /\ Len(stack) > 0
    /\ Top.fn = "withdraw_erc20" /\ Top.step = "start"
    /\ \E read \in TokenReads :
         IF ~read.ok THEN EndFrame(OpRaised, oplog)
         ELSE /\ stack' = [stack EXCEPT
                             ![Len(stack)].step = IF NeedsRecovery(read.bal) THEN "recover"
                                                  ELSE "send",
                             ![Len(stack)].bal = read.bal,
                             ![Len(stack)].amount = IF NeedsRecovery(read.bal) THEN Top.amount
                                                    ELSE ClampAmount(Top.amount, read.bal)]
              /\ oplog' = [oplog EXCEPT !.w_bal = read.bal]
              /\ UNCHANGED opret
    /\ UNCHANGED <<sendVars, waitVars, creditVars, gasVars, feeVars, cycleVars, allowance>>

\* get_transaction_count(address, "pending") on L1 (line 666): the node has seen
\* every broadcast made through either L1 handle.
PendingCount == Max(nonce["l1"], nonce["temp_l1"])

\* Line 705, reached when the try block ended without returning.
RecoveryFails(lg) == EndFrame(OpRaised, [lg EXCEPT !.w_recovery = "failed"])

\* Lines 654-672: the L1 native balance is checked, temp_l1 is made with the nonce
\* the node reports, and the faucet claim is called through it.
WithdrawRecover ==
    /\ Len(stack) > 0
    /\ Top.fn = "withdraw_erc20" /\ Top.step = "recover"
    /\ \E read \in EthReads, count \in {BalanceOk(PendingCount), BalanceFailed} :
         IF ~read.ok
         THEN /\ RecoveryFails(oplog)
              /\ UNCHANGED nonce
         ELSE IF ~RecoveryAffordable(read.bal)
         THEN /\ RecoveryFails([oplog EXCEPT !.w_eth = read.bal])
              /\ UNCHANGED nonce
         ELSE IF ~count.ok
         THEN /\ RecoveryFails([oplog EXCEPT !.w_eth = read.bal])
              /\ UNCHANGED nonce
         ELSE /\ nonce' = [nonce EXCEPT !["temp_l1"] = count.bal]
              /\ Call("after_claim", Frame("claim", "start", "temp_l1", Top.amount))
              /\ oplog' = [oplog EXCEPT !.w_eth = read.bal]
              /\ UNCHANGED opret
    /\ UNCHANGED <<pc, chain, tx, allow_speedup, given, ret, nonce_at_call, fundsLog, attempts, sent,
                   nonce0, dist, waitVars, creditVars, gasVars, feeVars, cycleVars, allowance>>

\* Lines 672-691: after a true answer the L1 token balance is read and, when
\* positive, min(balance, amount) deposited through temp_l1.
WithdrawAfterClaim ==
    /\ Len(stack) > 0
    /\ Top.fn = "withdraw_erc20" /\ Top.step = "after_claim"
    /\ IF opret.kind = "raised" \/ opret.val = PyFalse
       THEN RecoveryFails(oplog)
       ELSE \E read \in TokenReads, count_ok \in BOOLEAN :
              IF ~read.ok \/ read.bal = 0 \/ ~count_ok
              THEN RecoveryFails(oplog)
              ELSE /\ Call("after_deposit",
                           Frame("deposit", "start", "temp_l1", Min(read.bal, Top.amount)))
                   /\ opret' = NoOpRet
                   /\ UNCHANGED oplog
    /\ UNCHANGED <<sendVars, waitVars, creditVars, gasVars, feeVars, cycleVars, allowance>>

\* Lines 691-705: the deposit returned (the operation returns, line 695) or raised.
WithdrawAfterDeposit ==
    /\ Len(stack) > 0
    /\ Top.fn = "withdraw_erc20" /\ Top.step = "after_deposit"
    /\ IF opret.kind = "raised"
       THEN RecoveryFails(oplog)
       ELSE EndFrame(Returned(PyNone), [oplog EXCEPT !.w_recovery = "ok"])
    /\ UNCHANGED <<sendVars, waitVars, creditVars, gasVars, feeVars, cycleVars, allowance>>

\* Lines 719-724: the withdraw call is built and sent on L2.
WithdrawSend ==
    /\ Len(stack) > 0
    /\ Top.fn = "withdraw_erc20" /\ Top.step = "send"
    /\ \E built \in BOOLEAN, a1 \in OpBroadcastAnswers(Top.h), a2 \in OpBroadcastAnswers(Top.h) :
         IF BuildAndSendAccepts(built, a1, a2)
         THEN /\ nonce' = [nonce EXCEPT ![Top.h] = NonceAfterSend(@)]
              /\ oplog' = [oplog EXCEPT !.txs = Append(@, OpTx("withdraw", Top.h, Top.amount))]
              /\ Goto("wait")
              /\ UNCHANGED opret
         ELSE /\ EndFrame(OpRaised, oplog)
              /\ UNCHANGED nonce
    /\ UNCHANGED <<pc, chain, tx, allow_speedup, given, ret, nonce_at_call, fundsLog, attempts, sent,
                   nonce0, dist, waitVars, creditVars, gasVars, feeVars, cycleVars, allowance>>

\* Lines 727-738: the receipt; after a successful one the remaining balance is read.
WithdrawWait ==
    /\ Len(stack) > 0
    /\ Top.fn = "withdraw_erc20" /\ Top.step = "wait"
    /\ \E rcpt \in WaitOutcomes, read \in {BalanceOk(0), BalanceFailed} :
         LET lg == [oplog EXCEPT !.main_rcpt = rcpt]
         IN  IF ReceiptBad(rcpt) \/ ~read.ok THEN EndFrame(OpRaised, lg)
             ELSE EndFrame(Returned(PyNone), lg)
    /\ UNCHANGED <<sendVars, waitVars, creditVars, gasVars, feeVars, cycleVars, allowance>>

----------------------------------------------------------------------------
(* The operations a caller starts *)

NewLog(op) ==
    [NoLog EXCEPT !.op = op, !.result = "running", !.nonce_start = nonce,
                  !.a_prev = IF oplog.op = "ensure_allowance"
                             THEN [min |-> oplog.a_min, txs |-> oplog.a_txs, result |-> oplog.result]
                             ELSE NoLog.a_prev]

\* check_and_claim_erc20_balance called on its own (as run_single_cycle does, line 1311).
CallClaim ==
    /\ Len(stack) = 0
    /\ stack' = <<Frame("claim", "start", "l1", ERC20_TOKENS)>>
    /\ oplog' = NewLog("check_and_claim")
    /\ opret' = NoOpRet
    /\ UNCHANGED <<sendVars, waitVars, creditVars, gasVars, feeVars, cycleVars, allowance>>

\* ensure_allowance called on its own, with the amount a deposit would need.
CallAllowance ==
    /\ Len(stack) = 0
    /\ \E min_amount \in {PartTokens, ERC20_TOKENS} :
         /\ stack' = <<Frame("allow", "start", "l1", min_amount)>>
         /\ oplog' = [NewLog("ensure_allowance") EXCEPT !.a_min = min_amount]
    /\ opret' = NoOpRet
    /\ UNCHANGED <<sendVars, waitVars, creditVars, gasVars, feeVars, cycleVars, allowance>>

\* deposit_erc20_to_l2 with the cycle's amount, or with a balance already clamped
\* by the caller (lines 1316-1317).
CallDeposit ==
    /\ Len(stack) = 0
    /\ \E amount \in {PartTokens, ERC20_TOKENS} :
         stack' = <<Frame("deposit", "start", "l1", amount)>>
    /\ oplog' = NewLog("deposit_erc20_to_l2")
    /\ opret' = NoOpRet
    /\ UNCHANGED <<sendVars, waitVars, creditVars, gasVars, feeVars, cycleVars, allowance>>

\* withdraw_eth_to_l1_via_message_passer and l2_self_transfer_eth, on the L2 handle.
CallSimple ==
    /\ Len(stack) = 0
    /\ \E fn \in {"withdraw_eth", "self_transfer"} :
         /\ stack' = <<Frame(fn, "start", "l2", 1)>>
         /\ oplog' = NewLog(fn)
    /\ opret' = NoOpRet
    /\ UNCHANGED <<sendVars, waitVars, creditVars, gasVars, feeVars, cycleVars, allowance>>

\* withdraw_erc20_to_l1 with the cycle's amount, or with a balance already clamped
\* by the caller (lines 1330-1331).
CallWithdraw ==
    /\ Len(stack) = 0
    /\ \E amount \in {PartTokens, ERC20_TOKENS} :
         /\ stack' = <<Frame("withdraw_erc20", "start", "l2", amount)>>
         /\ oplog' = [NewLog("withdraw_erc20_to_l1") EXCEPT !.w_requested = amount]
    /\ opret' = NoOpRet
    /\ UNCHANGED <<sendVars, waitVars, creditVars, gasVars, feeVars, cycleVars, allowance>>

----------------------------------------------------------------------------
(* run_single_cycle: the per-account tasks and the global task *)

\* base_tasks and global_tasks, by their task_type
BaseTasks == {"deposit_erc20", "withdraw_eth", "withdraw_erc20", "self_transfer"}

\* A task's turn, as a ghost: its type, whether a function that can broadcast was
\* entered, how the turn ended, and success_count before it.
NoTurn == [task |-> "none", entered |-> FALSE, out |-> "none", succ_before |-> 0]

\* tried: ghost, the (account, task) pairs whose turn came; global_tried, caught: ghosts.
\* Ghosts of the balance snapshot: bal_after, how many of the account's tasks had
\* finished when l1_balance and l2_balance were read; decided_no, how many had
\* finished when the last precondition was decided; decided_on, the bal_after of
\* the balances that decision used.  op_at_account: current_op at the account's start.
NoCycle ==
    [phase |-> "off", n |-> 0, acct |-> 0, l1_ok |-> FALSE, l2_level |-> 0,
     remaining |-> {}, account_success |-> 0, success_count |-> 0, failed |-> {},
     tried |-> {}, skipped |-> {}, global_tried |-> FALSE, caught |-> 0, cause |-> "none",
     current_op |-> 0, op_at_account |-> 0, bal_after |-> 0, decided_no |-> 0,
     decided_on |-> 0, last |-> NoTurn]

\* The L2 balance against the thresholds: 0 below 0.001 ether, 1 below 0.005, 2 above.
L2Levels == 0..2

\* What a task's turn can come to: "done" (the branch returned), "skip" (a
\* `continue`), "raise" (an exception inside the try).  The branch taken depends on
\* the balances read at the account's start (lines 1306, 1322, 1325, 1337).
TaskOutcomes_Unchecked(task, l1_ok, l2_level) == {"done", "skip", "raise"}
TaskOutcomes(task, l1_ok, l2_level) ==
    IF task = "deposit_erc20" /\ l1_ok THEN {"done", "skip", "raise"}
    ELSE IF task = "withdraw_eth" /\ l2_level >= 1 THEN {"done", "raise"}
    ELSE IF task = "withdraw_erc20" /\ l2_level >= 1 THEN {"done", "skip", "raise"}
    ELSE IF task = "self_transfer" /\ l2_level >= 1 THEN {"done", "raise"}
    ELSE {"skip"}

\* Whether the turn entered a function that can broadcast.  The else branch (line
\* 1339) calls nothing; withdraw_erc20 skips after get_erc20_balance alone (lines
\* 1327-1335); deposit_erc20 skips after check_and_claim_erc20_balance (line 1311).
Enters(task, l1_ok, l2_level, out) ==
    IF out # "skip" THEN TRUE
    ELSE task = "deposit_erc20" /\ l1_ok

\* current_op += total_tasks_per_account for an account skipped (line 1286)
SkippedAccountOps_None(total_tasks_per_account) == 0
SkippedAccountOps(total_tasks_per_account) == total_tasks_per_account

\* After the loop over the accounts come the global tasks (line 1369).
AfterAccounts_Summary == "summary"
AfterAccounts == "global"

\* `except Exception as e:` around each task (line 1350) and around the global task
\* (line 1385): the exception goes no further.
CatchesTaskError_Not == FALSE
CatchesTaskError == TRUE

\* The loop over the accounts moves on, or ends and the global tasks begin.
CycleNextAccount(c) ==
    IF c.acct < c.n
    THEN [c EXCEPT !.acct = c.acct + 1, !.phase = "account", !.remaining = {},
                   !.account_success = 0, !.l1_ok = FALSE, !.l2_level = 0,
                   !.op_at_account = 0, !.bal_after = 0, !.decided_no = 0,
                   !.decided_on = 0, !.last = NoTurn]
    ELSE [c EXCEPT !.phase = AfterAccounts, !.remaining = {}, !.account_success = 0,
                   !.l1_ok = FALSE, !.l2_level = 0,
                   !.op_at_account = 0, !.bal_after = 0, !.decided_no = 0,
                   !.decided_on = 0, !.last = NoTurn]

\* Lines 1224-1249
CycleCall ==
    /\ cyc.phase = "off"
    /\ \E n \in 1..MaxAccounts :
         cyc' = [NoCycle EXCEPT !.phase = "account", !.n = n, !.acct = 1]
    /\ UNCHANGED <<sendVars, waitVars, creditVars, gasVars, feeVars, bridgeVars>>

\* Lines 1252-1292: the account's handles and balances are read outside any try;
\* an account low on both networks is skipped.
CycleAccount ==
    /\ cyc.phase = "account"
    /\ \E rpc_ok \in BOOLEAN, l1_ok \in BOOLEAN, l2_level \in L2Levels :
         IF ~rpc_ok
         THEN cyc' = [cyc EXCEPT !.phase = "aborted", !.cause = "setup"]
         ELSE IF ~l1_ok /\ l2_level < 2
         THEN cyc' = CycleNextAccount([cyc EXCEPT !.failed = @ \cup {cyc.acct},
                                                  !.skipped = @ \cup {cyc.acct},
                                                  !.current_op =
                                                      @ + SkippedAccountOps(Cardinality(BaseTasks))])
         ELSE cyc' = [cyc EXCEPT !.phase = "tasks", !.l1_ok = l1_ok,
                                 !.l2_level = l2_level, !.remaining = BaseTasks,
                                 !.account_success = 0,
                                 !.op_at_account = cyc.current_op, !.bal_after = 0]
    /\ UNCHANGED <<sendVars, waitVars, creditVars, gasVars, feeVars, bridgeVars>>

\* Lines 1298-1352: the next task of the shuffled list.
CycleTask ==
    /\ cyc.phase = "tasks"
    /\ \E task \in cyc.remaining :
       \E out \in TaskOutcomes(task, cyc.l1_ok, cyc.l2_level) :
         LET c1 == [cyc EXCEPT !.remaining = @ \ {task},
                               !.tried = @ \cup {<<cyc.acct, task>>},
                               !.current_op = @ + 1,
                               !.decided_no = Cardinality(BaseTasks \ cyc.remaining),
                               !.decided_on = cyc.bal_after,
                               !.last = [task |-> task,
                                         entered |-> Enters(task, cyc.l1_ok, cyc.l2_level, out),
                                         out |-> out, succ_before |-> cyc.success_count]]
         IN  IF out = "done"
             THEN cyc' = [c1 EXCEPT !.account_success = @ + 1, !.success_count = @ + 1]
             ELSE IF out = "skip"
             THEN cyc' = c1
             ELSE IF CatchesTaskError
             THEN cyc' = [c1 EXCEPT !.caught = Min(@ + 1, 2)]
             ELSE cyc' = [c1 EXCEPT !.phase = "aborted", !.cause = "task"]
    /\ UNCHANGED <<sendVars, waitVars, creditVars, gasVars, feeVars, bridgeVars>>

\* Lines 1354-1362: the account's tally.
CycleAccountEnd ==
    /\ cyc.phase = "tasks"
    /\ cyc.remaining = {}
    /\ cyc' = CycleNextAccount(
                 IF cyc.account_success = 0
                 THEN [cyc EXCEPT !.failed = @ \cup {cyc.acct}] ELSE cyc)
    /\ UNCHANGED <<sendVars, waitVars, creditVars, gasVars, feeVars, bridgeVars>>

\* Lines 1369-1386: the global task, the handle's creation inside the try with it.
CycleGlobal ==
    /\ cyc.phase = "global"
    /\ \E out \in {"done", "raise"} :
         LET c1 == [cyc EXCEPT !.global_tried = TRUE, !.current_op = @ + 1]
         IN  IF out = "done"
             THEN cyc' = [c1 EXCEPT !.phase = "summary", !.success_count = @ + 1]
             ELSE IF CatchesTaskError
             THEN cyc' = [c1 EXCEPT !.phase = "summary", !.caught = Min(@ + 1, 2)]
             ELSE cyc' = [c1 EXCEPT !.phase = "aborted", !.cause = "task"]
    /\ UNCHANGED <<sendVars, waitVars, creditVars, gasVars, feeVars, bridgeVars>>

\* Lines 1388-1406: the summary is printed and run_single_cycle returns; or its
\* exception has left it.
CycleReturn ==
    /\ cyc.phase \in {"summary", "aborted"}
    /\ cyc' = NoCycle
    /\ UNCHANGED <<sendVars, waitVars, creditVars, gasVars, feeVars, bridgeVars>>

----------------------------------------------------------------------------
(* Initial state *)


WaitInit ==
    /\ wpc = "off" /\ wtimeout = 0 /\ welapsed = 0 /\ last_err = "None"
    /\ wresult = Pending /\ wfirst = Pending /\ wlate = FALSE /\ wpolls = 0

CreditInit ==
    /\ cpc = "off" /\ cbefore = 0 /\ cdelta = 0 /\ ctimeout = 0 /\ celapsed = 0
    /\ cresult = "pending" /\ cseen = FALSE /\ cpolls = 0

SendInit ==
    /\ nonce0 = [h \in Handles \cup TempHandles |-> IF h = "l2" THEN 0 ELSE 5]
    /\ nonce = nonce0
    /\ pc = "idle"
    /\ chain = "l1"
    /\ tx = EmptyTx
    /\ allow_speedup = FALSE
    /\ given = NoGiven
    /\ ret = NoRet
    /\ nonce_at_call = 0
    /\ fundsLog = <<>>
    /\ attempts = <<>>
    /\ sent = <<>>
    /\ dist = NoDist

----------------------------------------------------------------------------
(* one_click_flow_random in 24-hour mode, and the interrupt signal *)

\* phase: "off" before the call, "cycle" inside run_single_cycle, "countdown"
\* inside countdown_24_hours, "ended" once the function has returned.
\* started, interrupted, sent_at and started_at are ghosts: the cycles begun, and
\* what had been broadcast and begun when the interrupt was delivered.  erred and
\* ticks are ghosts: a cycle raised an error, and the sleeps of the last countdown.
NoFlow == [phase |-> "off", cycle_count |-> 0, remaining |-> 0, started |-> 0,
           interrupted |-> FALSE, sent_at |-> 0, started_at |-> 0,
           erred |-> FALSE, ticks |-> 0]

\* `except Exception as e:` around run_single_cycle (line 1211)
CatchesCycleError_Not == FALSE
CatchesCycleError == TRUE

\* What `except Exception` takes: KeyboardInterrupt derives from BaseException only.
ExceptException_Bare(exc) == TRUE
ExceptException(exc) == exc # "KeyboardInterrupt"

\* Lines 1198-1203: the user chose the loop; the first cycle begins.
FlowCall ==
    /\ flow.phase = "off"
    /\ pc = "idle"
    /\ flow' = [flow EXCEPT !.phase = "cycle", !.cycle_count = 1, !.started = 1]
    /\ UNCHANGED <<sendVars, waitVars, creditVars, gasVars, fcall, ecall, cycleVars, bridgeVars>>

\* A task of the running cycle calls build_and_send (the operations of
\* run_single_cycle, lines 1304-1345, in any number and order).  The handles of
\* one account are followed through the cycles.
FlowOperation ==
    /\ flow.phase = "cycle"
    /\ BuildAndSend

\* Lines 1209-1218: run_single_cycle has returned, or raised an Exception (the
\* set-up of an account failing, lines 1259-1276) that line 1211 took;
\* cycle_count += 1 and the countdown begins.  An exception not taken there would
\* leave one_click_flow_random.
FlowCycleEnd ==
    /\ flow.phase = "cycle"
    /\ pc = "idle"
    /\ \E raised \in BOOLEAN :
         IF raised /\ ~CatchesCycleError
         THEN flow' = [flow EXCEPT !.phase = "ended", !.erred = TRUE]
         ELSE flow' = [flow EXCEPT !.phase = "countdown", !.cycle_count = @ + 1,
                                   !.remaining = CountdownTicks, !.ticks = 0,
                                   !.erred = @ \/ raised]
    /\ UNCHANGED <<sendVars, waitVars, creditVars, gasVars, fcall, ecall, cycleVars, bridgeVars>>

\* Lines 1413-1420: one time.sleep(1) of the countdown.
FlowCountdownTick ==
    /\ flow.phase = "countdown"
    /\ flow.remaining > 0
    /\ flow' = [flow EXCEPT !.remaining = @ - 1, !.ticks = @ + 1]
    /\ UNCHANGED <<sendVars, waitVars, creditVars, gasVars, fcall, ecall, cycleVars, bridgeVars>>

\* Lines 1426 and 1203: the countdown is over, `while True` begins the next cycle.
FlowCountdownEnd ==
    /\ flow.phase = "countdown"
    /\ flow.remaining = 0
    /\ flow.cycle_count <= MaxCycles
    /\ flow' = [flow EXCEPT !.phase = "cycle", !.started = @ + 1]
    /\ UNCHANGED <<sendVars, waitVars, creditVars, gasVars, fcall, ecall, cycleVars, bridgeVars>>

\* The places the signal is delivered at: a sleep or a lookup of the receipt loop
\* (lines 335-349), of the credit loop (lines 391-403), or of the countdown.
InReceiptLoop == flow.phase = "cycle" /\ pc = "wait" /\ wpc # "done"
InCreditLoop  == flow.phase = "cycle" /\ pc = "credit" /\ cpc # "done"
InCountdown   == flow.phase = "countdown" /\ flow.remaining > 0

\* KeyboardInterrupt is raised there and goes up the frames.  Inside a cycle the
\* first handlers on its way are `except Exception` (lines 344, 1350, 1211): one
\* that took it would end the task only.  In the countdown line 1422 takes it and
\* raises it again.  Line 1220 takes it then, and one_click_flow_random returns.
FlowInterrupt ==
    /\ ~flow.interrupted
    /\ InReceiptLoop \/ InCreditLoop \/ InCountdown
    /\ flow' = [flow EXCEPT
                  !.phase = IF flow.phase = "cycle" /\ ExceptException("KeyboardInterrupt")
                            THEN "cycle" ELSE "ended",
                  !.remaining = 0,
                  !.interrupted = TRUE,
                  !.sent_at = Len(sent),
                  !.started_at = flow.started]
    /\ pc' = "idle"
    /\ DropCall /\ DropWait /\ DropCredit
    /\ UNCHANGED <<nonce, sent, nonce0, dist, gasVars, fcall, ecall, cycleVars, bridgeVars>>

----------------------------------------------------------------------------
Idle == SendInit /\ WaitInit /\ CreditInit /\ gcall = NoGasCall /\ fcall = NoFeeCall
        /\ ecall = NoFundsCall
        /\ flow = NoFlow
        /\ cyc = NoCycle
        /\ stack = <<>> /\ opret = NoOpRet /\ oplog = NoLog

Init == Idle /\ allowance = 0

\* The bridge operations start from any allowance the token may hold for the bridge.
InitOps == Idle /\ allowance \in {0, PartTokens, ERC20_TOKENS}

----------------------------------------------------------------------------
(* Specifications *)

NextSend ==
    \/ BuildAndSend \/ FundsCheck \/ ReadBalBefore \/ CallCreditPoll \/ CallCreditTimeout
    \/ FundsRecheck \/ SendFirst \/ SendRetry \/ CallerAfterRaise
    \/ CallerWaitBegin \/ CallerWaitPoll \/ CallerWaitTimeout \/ CallerWaitEnd
    \/ DistCall \/ DistTransfer \/ DistSendTransfer \/ DistRetryTransfer
    \/ DistAfterTransfer \/ DistDeposit \/ DistSendDeposit \/ DistRetryDeposit
    \/ DistAfterDeposit \/ DistReturn
Spec == Init /\ [][NextSend]_vars

\* build_and_send and its caller's wait, the call given any dict.
NextFill ==
    \/ BuildAndSendAny \/ FundsCheck \/ ReadBalBefore \/ CallCreditPoll \/ CallCreditTimeout
    \/ FundsRecheck \/ SendFirst \/ SendRetry \/ CallerAfterRaise
    \/ CallerWaitBegin \/ CallerWaitPoll \/ CallerWaitTimeout \/ CallerWaitEnd
SpecFill == Init /\ [][NextFill]_vars

NextWait == WaitCall \/ WaitPoll \/ WaitTimeout
SpecWait == Init /\ [][NextWait]_vars

NextCredit == CreditCall \/ CreditPoll \/ CreditTimeout
SpecCredit == Init /\ [][NextCredit]_vars

\* The engine has one thread: it is in one wait at a time, and a wait's locals are
\* gone when the next wait is entered.
WaitsCallReceipt ==
    /\ wpc \in {"off", "done"} /\ cpc \in {"off", "done"}
    /\ \E t \in 0..MaxTimeout : WaitBegin(t)
    /\ DropCredit
    /\ UNCHANGED <<sendVars, gasVars, opVars>>

WaitsCallCredit ==
    /\ wpc \in {"off", "done"} /\ cpc \in {"off", "done"}
    /\ \E b \in 0..MaxBalance, d \in 0..MaxDelta, t \in 0..(MaxTimeout + CREDIT_POLL_INTERVAL) :
          CreditBegin(b, d, t)
    /\ DropWait
    /\ UNCHANGED <<sendVars, gasVars, opVars>>

\* Both waits, each loop running on once entered.
NextWaits ==
    \/ WaitsCallReceipt \/ WaitPoll \/ WaitTimeout
    \/ WaitsCallCredit \/ CreditPoll \/ CreditTimeout
SpecWaits ==
    /\ Init /\ [][NextWaits]_vars
    /\ WF_vars(WaitPoll \/ WaitTimeout)
    /\ WF_vars(CreditPoll \/ CreditTimeout)

NextGas == GasCall
SpecGas == Init /\ [][NextGas]_vars

NextFee == FeeCall
SpecFee == Init /\ [][NextFee]_vars

\* The 24-hour loop: its cycles' calls of build_and_send and their waits, the
\* countdowns, and one interrupt signal.
NextFlow ==
    \/ FlowCall \/ FlowOperation \/ FlowCycleEnd \/ FlowCountdownTick \/ FlowCountdownEnd
    \/ FlowInterrupt
    \/ FundsCheck \/ ReadBalBefore \/ CallCreditPoll \/ CallCreditTimeout
    \/ FundsRecheck \/ SendFirst \/ SendRetry \/ CallerAfterRaise
    \/ CallerWaitBegin \/ CallerWaitPoll \/ CallerWaitTimeout \/ CallerWaitEnd
SpecFlow == Init /\ [][NextFlow]_vars

NextFunds == FundsCall
SpecFunds == Init /\ [][NextFunds]_vars

NextCycle ==
    \/ CycleCall \/ CycleAccount \/ CycleTask \/ CycleAccountEnd \/ CycleGlobal
    \/ CycleReturn
SpecCycle == Init /\ [][NextCycle]_vars

NextOps ==
    \/ CallClaim \/ CallAllowance \/ CallDeposit
    \/ ClaimStart \/ ClaimFaucet \/ ClaimFaucetWait
    \/ AllowStart \/ AllowApprove \/ AllowWait
    \/ DepositStart \/ DepositAfterClaim \/ DepositSend \/ DepositWait
    \/ CallSimple \/ SimpleSend \/ SimpleWait
    \/ CallWithdraw \/ WithdrawStart \/ WithdrawRecover \/ WithdrawAfterClaim
    \/ WithdrawAfterDeposit \/ WithdrawSend \/ WithdrawWait
SpecOps == InitOps /\ [][NextOps]_vars

----------------------------------------------------------------------------
(* Claims about the submission pipeline, under Spec *)

\* The transactions broadcast through handle h, in the order of their broadcast.
SentOn(h) == SelectSeq(sent, LAMBDA e : e.chain = h)

\* C1: the nonces of the transactions broadcast one after another through one
\* handle are consecutive: each is the previous one plus 1, no gap and no repeat,
\* whatever receipts the transactions get.
C1_ConsecutiveNonces ==
    \A h \in Handles :
        LET s == SentOn(h)
        IN  \A i \in 1..(Len(s) - 1) : s[i + 1].nonce = s[i].nonce + 1

\* Two build_and_send broadcasts on one handle, the first confirmed as failed and
\* the second never confirmed.
C1_Witness ==
    /\ pc = "idle"
    /\ \E h \in Handles :
         LET s == SentOn(h)
         IN  /\ Len(s) = 2
             /\ \A i \in 1..2 : s[i].via = "build_and_send" /\ ~s[i].preset
             /\ s[1].rcpt = Receipt(0)
             /\ s[2].rcpt = NoneResult

\* C2: a handle's nonce is its initial value plus the number of transactions
\* broadcast through it, by build_and_send or by distribute_and_bridge; a failed
\* receipt or a wait that timed out does not take it back.
C2_NonceCountsBroadcasts ==
    \A h \in Handles : nonce[h] = nonce0[h] + Len(SentOn(h))

\* Between operations, after a build_and_send transaction confirmed as failed and a
\* distribute_and_bridge transfer whose wait timed out, both on the same handle.
C2_Witness ==
    /\ pc = "idle"
    /\ nonce["l1"] = nonce0["l1"] + 2
    /\ \E i, j \in 1..Len(sent) :
         /\ sent[i].via = "build_and_send" /\ sent[i].chain = "l1"
         /\ sent[i].rcpt = Receipt(0)
         /\ sent[j].via = "transfer" /\ sent[j].rcpt = NoneResult

\* C3: with allow_speedup, when the first broadcast is rejected as underpriced and
\* the second accepted, the second transaction carries the first one's nonce, each
\* of its two fee fields is the first one's times 1.25 truncated to an integer, and
\* the handle's nonce ends 1 above its value at the call.
C3_SpeedupOnce ==
    (/\ pc = "returned"
     /\ Len(attempts) = 2
     /\ allow_speedup
     /\ IsUnderpriced(attempts[1].answer.msg)) =>
        LET a == attempts[1].tx
            b == attempts[2].tx
        IN  /\ b["nonce"] = a["nonce"]
            /\ \A k \in {"maxPriorityFeePerGas", "maxFeePerGas"} :
                   4 * b[k] <= 5 * a[k] /\ 5 * a[k] < 4 * b[k] + 4
            /\ nonce[chain] = nonce_at_call + 1
            /\ sent[Len(sent)].nonce = a["nonce"]

\* A resubmission was accepted whose bumped fee is not a whole multiple.
C3_Witness ==
    /\ pc = "returned"
    /\ Len(attempts) = 2
    /\ allow_speedup
    /\ IsUnderpriced(attempts[1].answer.msg)
    /\ attempts[2].answer.ok
    /\ (5 * attempts[1].tx["maxFeePerGas"]) % 4 # 0

\* C4: one call makes at most two broadcast attempts; when the bumped retry is
\* rejected too, its error reaches the caller and the handle's nonce is the one at
\* the call.
C4_SingleRetry ==
    /\ Len(attempts) <= 2
    /\ (pc = "resend" => Len(attempts) = 1)
    /\ (Len(attempts) = 2 /\ ~attempts[2].answer.ok =>
            /\ pc = "raised"
            /\ ret = Raise(attempts[2].answer.msg)
            /\ nonce[chain] = nonce_at_call)

\* The bumped retry was rejected as underpriced again.
C4_Witness ==
    /\ pc = "raised"
    /\ Len(attempts) = 2
    /\ IsUnderpriced(attempts[2].answer.msg)

\* C5: a second attempt is made only after an underpriced rejection with
\* allow_speedup; after any other rejection there is one attempt, the error reaches
\* the caller, and the handle's nonce and the transaction (its fee fields with it)
\* are as they were.
C5_RetryOnlyWhenOptedIn ==
    /\ (Len(attempts) >= 2 =>
            /\ allow_speedup
            /\ ~attempts[1].answer.ok
            /\ IsUnderpriced(attempts[1].answer.msg))
    /\ ((/\ Len(attempts) >= 1
         /\ ~attempts[1].answer.ok
         /\ ~(allow_speedup /\ IsUnderpriced(attempts[1].answer.msg))) =>
            /\ Len(attempts) = 1
            /\ pc = "raised"
            /\ ret = Raise(attempts[1].answer.msg)
            /\ nonce[chain] = nonce_at_call
            /\ tx = attempts[1].tx)

\* An underpriced rejection without allow_speedup: one attempt, then the error.
C5_Witness ==
    /\ pc = "raised"
    /\ Len(attempts) = 1
    /\ ~allow_speedup
    /\ IsUnderpriced(attempts[1].answer.msg)

\* C6: on a network whose name starts with GIWA, when the balance check fails both
\* before and after the wait for credit, build_and_send raises the insufficiency
\* error, no broadcast attempt is made, and the handle's nonce is the one at the call.
C6_InsufficientAborts ==
    fundsLog = <<FALSE, FALSE>> =>
        /\ StartsWithGIWA(ChainName(chain))
        /\ pc = "raised"
        /\ ret = Raise(<<"insufficient">>)
        /\ attempts = <<>>
        /\ nonce[chain] = nonce_at_call
        /\ nonce[chain] = nonce0[chain] + Len(SentOn(chain))

\* The second check failed after a wait for credit, with an earlier transaction of
\* the handle already on the oplog.
C6_Witness ==
    /\ fundsLog = <<FALSE, FALSE>>
    /\ pc = "raised"
    /\ Len(SentOn(chain)) >= 1

----------------------------------------------------------------------------
(* Claims about wait_receipt_with_progress, under SpecWait *)

\* C7: the wait returns the first receipt a poll observes, whatever its status,
\* and polls no more after it; a wait ends only by a receipt or by the timeout,
\* so a lookup error in an earlier poll does not end it.
C7_FirstReceiptReturned ==
    /\ ~wlate
    /\ (wfirst # Pending => wpc = "done" /\ wresult = wfirst)
    /\ (wpc = "done" => wresult.kind = "receipt" \/ welapsed >= wtimeout)

\* A status-0 receipt returned by the second poll or later, after a lookup error.
C7_Witness ==
    wpc = "done" /\ wresult = Receipt(0) /\ last_err = "error" /\ wpolls >= 2

\* C8: the wait never raises; when no poll observed a receipt it returns None,
\* and only once the timeout has elapsed.
C8_AbsentAtTimeout ==
    /\ wresult # RaisedResult
    /\ (wpc = "done" /\ wfirst = Pending => wresult = NoneResult /\ welapsed >= wtimeout)

\* None returned after polls that answered nothing or failed.
C8_Witness ==
    wpc = "done" /\ wresult = NoneResult /\ last_err = "error" /\ wpolls >= 3

----------------------------------------------------------------------------
(* Claims about wait_for_l2_credit, under SpecCredit *)

\* C9 as stated: true iff some poll observed a balance >= B + D, and otherwise
\* false, at the timeout, without raising.
C9_Original ==
    cpc = "done" =>
        /\ (cresult = "true" <=> cseen)
        /\ (~cseen => cresult = "false" /\ celapsed >= ctimeout)

\* C9 as amended: true iff some poll observed a balance >= B + D; false only once
\* the timeout has elapsed with every read below B + D; and the only other way out
\* is the exception of a balance read that failed.
C9_CreditIffObserved ==
    cpc = "done" =>
        /\ cresult \in {"true", "false", "raised"}
        /\ (cresult = "true" <=> cseen)
        /\ (cresult = "false" => celapsed >= ctimeout)
        /\ (cresult = "raised" => ~cseen)

\* A wait that made several polls, each reading less than B + D, and answered false.
C9_Witness ==
    cpc = "done" /\ cresult = "false" /\ cpolls >= 2 /\ cdelta > 0 /\ cbefore > 0

----------------------------------------------------------------------------
(* Claims about estimate_and_cap_gas, under SpecGas *)

\* C10: the gas returned never exceeds the supplied cap, for every estimate and
\* when the estimation fails.
C10_GasWithinCap == gcall.gas <= gcall.cap

\* The spec's example: estimate 1,000,000 with cap 300,000 returns 300,000.
C10_Witness ==
    gcall.ok /\ gcall.est = 1000000 /\ gcall.cap = CAP_PLAIN /\ gcall.gas = CAP_PLAIN

----------------------------------------------------------------------------
(* Claims about run_single_cycle, under SpecCycle *)

\* C19: an exception raised by a per-account task or by the global task is caught
\* at that task: it never ends the cycle, and once the account loop is over every
\* task of every account that was not skipped has had its turn, and at the summary
\* the global task has had its turn too.
C19_TaskErrorsConfined ==
    /\ cyc.cause # "task"
    /\ (cyc.phase \in {"global", "summary"} =>
            \A a \in 1..cyc.n :
                a \in cyc.skipped \/ \A t \in BaseTasks : <<a, t>> \in cyc.tried)
    /\ (cyc.phase = "tasks" /\ cyc.caught > 0 =>
            \A t \in BaseTasks : t \in cyc.remaining \/ <<cyc.acct, t>> \in cyc.tried)
    /\ (cyc.phase = "summary" => cyc.global_tried)

\* The summary of a cycle over two accounts in which exceptions were caught, the
\* first account's to begin with, and none of its tasks succeeded.
C19_Witness ==
    /\ cyc.phase = "summary"
    /\ cyc.n = 2
    /\ cyc.caught = 2
    /\ 1 \in cyc.failed /\ 1 \notin cyc.skipped
    /\ cyc.success_count > 0

----------------------------------------------------------------------------
(* Claims about distribute_and_bridge, under Spec *)

\* C20: a failure while one target is processed (a balance too short for its
\* transfer, a rejected broadcast of its transfer or deposit) is confined to that
\* target: when distribute_and_bridge ends, the loop has reached the last target.
C20_FailureConfined ==
    pc = "d_end" => dist.idx = dist.n

----------------------------------------------------------------------------
(* Claims about get_eip1559_fees, under SpecFee *)

\* C11: every fee quote has max fee >= 2 x priority tip, for every base fee the
\* node reports; when the fee-history read fails the quote is made from the
\* 2-gwei default, so the caller gets a quote either way.
C11_MaxFeeCoversTwoTips ==
    /\ fcall.max_fee >= 2 * fcall.priority
    /\ (~fcall.ok => fcall.base = 2 * GweiScale)

\* A quote made on the L2 profile after the read failed: 2.5 x 2 gwei + 2 tips.
C11_Witness ==
    /\ ~fcall.ok
    /\ fcall.chain = "l2"
    /\ fcall.priority > 0
    /\ fcall.max_fee = 5 * GweiScale + 2 * fcall.priority

----------------------------------------------------------------------------
(* Claims about the ERC-20 helpers and the bridge operations, under SpecOps *)

FaucetFailed == oplog.c_faucet \in {"raised", "failed_receipt", "no_receipt"}
TxsVia(via) == {i \in 1..Len(oplog.txs) : oplog.txs[i].via = via}
SecondAllowanceCall(results) ==
    /\ oplog.op = "ensure_allowance"
    /\ oplog.a_prev.result \in results
    /\ oplog.a_prev.min = oplog.a_min

\* C12, as stated: two calls of ensure_allowance in a row with the same required
\* amount broadcast at most one approval between them, whatever the first did.
C12_Original ==
    SecondAllowanceCall({"returned", "raised"}) => oplog.a_prev.txs + oplog.a_txs <= 1

\* C12, amended: when the first of two calls of ensure_allowance in a row with the
\* same required amount returned normally, the second broadcasts no approval, so
\* the two broadcast at most one between them.
C12_SecondCallNoApproval ==
    SecondAllowanceCall({"returned"}) => oplog.a_txs = 0 /\ oplog.a_prev.txs <= 1

\* C12 witness: the first call broadcast an approval and returned, the second
\* returned without broadcasting.
C12_Witness ==
    /\ SecondAllowanceCall({"returned"})
    /\ oplog.a_prev.txs = 1
    /\ oplog.result = "returned" /\ oplog.a_txs = 0

\* C13: check_and_claim_erc20_balance finding a balance already >= the required
\* amount returns True at once: no faucet call, nothing broadcast, nonce unchanged.
C13_EnoughBalanceNoFaucet ==
    (oplog.c_result # "none" /\ oplog.c_bal >= oplog.c_required) =>
        /\ oplog.c_result = "true"
        /\ oplog.c_faucet = "none"
        /\ oplog.c_txs1 = oplog.c_txs0
        /\ oplog.c_nonce1 = oplog.c_nonce0

\* C13 witness: called on its own with the full balance in place, it returned True.
C13_Witness ==
    /\ oplog.op = "check_and_claim" /\ oplog.result = "returned"
    /\ oplog.c_bal = ERC20_TOKENS /\ oplog.c_required = ERC20_TOKENS
    /\ oplog.c_result = "true" /\ opret = Returned(PyTrue)

\* C14, as stated: whenever the faucet claim fails in any way (not built or not
\* broadcast, failed receipt, no receipt in time) and the balance read at the start
\* was positive, check_and_claim_erc20_balance returns True.
C14_PositiveBalanceSurvivesFailedClaim ==
    (FaucetFailed /\ oplog.c_bal > 0 /\ oplog.c_result # "running") => oplog.c_result = "true"

\* C15, as stated: a deposit of A with a balance B, 0 < B < A, after a failed faucet
\* claim is not stopped by the balance check, and every depositERC20To it
\* broadcasts carries min(A, the balance re-read).
C15_ProceedsWithClampedAmount ==
    /\ (FaucetFailed /\ 0 < oplog.c_bal /\ oplog.c_bal < oplog.d_requested) =>
            oplog.d_fail # "claim_false"
    /\ \A i \in TxsVia("depositERC20To") :
            oplog.txs[i].amount = Min(oplog.d_requested, oplog.d_reread)

\* C16: withdraw_erc20_to_l1 finding an L2 token balance of 0 and an L1 native
\* balance below 0.01 ether raises, having broadcast nothing and moved no nonce.
C16_NoRecoveryWithoutGas ==
    (oplog.op = "withdraw_erc20_to_l1" /\ oplog.w_bal = 0
        /\ 0 <= oplog.w_eth /\ oplog.w_eth < RecoveryMin) =>
        /\ oplog.result = "raised"
        /\ oplog.txs = <<>>
        /\ nonce = oplog.nonce_start

\* C16 witness: the case with the native balance one wei below the threshold.
C16_Witness ==
    /\ oplog.op = "withdraw_erc20_to_l1" /\ oplog.w_bal = 0
    /\ oplog.w_eth = RecoveryMin - 1
    /\ oplog.result = "raised" /\ opret = OpRaised

\* C17: when withdraw_erc20_to_l1 read an L2 token balance of 0, it never
\* broadcasts the L2 withdraw; it returns normally exactly when the recovery
\* (claim, then deposit confirmed on L1) went through, and raises otherwise.
C17_ZeroBalanceNeverWithdraws ==
    (oplog.op = "withdraw_erc20_to_l1" /\ oplog.w_bal = 0) =>
        /\ TxsVia("withdraw") = {}
        /\ nonce["l2"] = oplog.nonce_start["l2"]
        /\ (oplog.result = "returned" <=> oplog.w_recovery = "ok")
        /\ (oplog.result = "raised" <=> oplog.w_recovery = "failed")
        /\ (oplog.w_recovery = "ok" =>
                TxsVia("depositERC20To") # {} /\ oplog.main_rcpt = Receipt(1))

\* C17 witness: a recovery that claimed from the faucet and deposited, and returned.
C17_Witness ==
    /\ oplog.op = "withdraw_erc20_to_l1" /\ oplog.w_bal = 0
    /\ oplog.result = "returned"
    /\ TxsVia("claimFaucet") # {} /\ TxsVia("depositERC20To") # {}

BridgeOps == {"deposit_erc20_to_l2", "withdraw_eth", "withdraw_erc20_to_l1", "self_transfer"}

\* C18: a bridge operation whose main transaction got no receipt in time, or a
\* receipt with another status than success, raises; one that returned normally
\* had seen a receipt with status success.
C18_BadReceiptRaises ==
    oplog.op \in BridgeOps =>
        /\ (oplog.result = "returned" => oplog.main_rcpt = Receipt(1))
        /\ (oplog.main_rcpt \in {NoneResult, Receipt(0)} =>
                /\ oplog.result # "returned"
                /\ opret = OpRaised
                /\ (Len(stack) = 0 => oplog.result = "raised"))

\* C18 witness: the L2 withdraw was broadcast, its receipt reported failure, and
\* withdraw_erc20_to_l1 raised.
C18_Witness ==
    /\ oplog.op = "withdraw_erc20_to_l1" /\ TxsVia("withdraw") # {}
    /\ oplog.main_rcpt = Receipt(0)
    /\ oplog.result = "raised"

----------------------------------------------------------------------------
(* Claims about the two waits together, under SpecWaits *)

\* ceil(a / b) for b > 0
CeilDiv(a, b) == (a + b - 1) \div b

\* C21: wait_receipt_with_progress and wait_for_l2_credit each make at most
\* ceil(timeout / interval) polls, whatever the node answers, and each wait that
\* is polling comes to its end.
C21_WaitsTerminate ==
    /\ [](wpolls <= CeilDiv(wtimeout, TX_POLL_INTERVAL))
    /\ [](cpolls <= CeilDiv(ctimeout, CREDIT_POLL_INTERVAL))
    /\ (wpc = "poll" ~> wpc = "done")
    /\ (cpc = "poll" ~> cpc = "done")

\* C21 witness: a credit wait ran into its timeout after the most polls the
\* timeout allows, the node never having shown the credit.
C21_Witness ==
    /\ cpc = "done" /\ cresult = "false" /\ ctimeout = MaxTimeout
    /\ cpolls = CeilDiv(MaxTimeout, CREDIT_POLL_INTERVAL)
    /\ cpolls > 1

----------------------------------------------------------------------------
(* Claim about ensure_funds_for_tx, under SpecFunds *)

\* C27: ensure_funds_for_tx answers True exactly when the balance it read is at
\* least value + gas x maxFeePerGas; a balance equal to that cost is enough.
C27_SufficientIffCovers ==
    ecall.ok <=> (ecall.bal >= ecall.value + ecall.gas * ecall.max_fee)

\* C27 witness: a balance equal to the cost, with value, gas and fee all positive.
C27_Witness ==
    /\ ecall.ok
    /\ ecall.value > 0 /\ ecall.gas > 1 /\ ecall.max_fee > 1
    /\ ecall.bal = ecall.value + ecall.gas * ecall.max_fee

----------------------------------------------------------------------------
(* More claims about the ERC-20 helpers and the bridge operations, under SpecOps *)

\* C24: a depositERC20To is broadcast only once the allowance covers its amount:
\* the allowance read was already >= the amount, or an approval of
\* max(amount x 10, 1000000 tokens) was broadcast before it and confirmed with
\* status success; after an approval whose receipt is absent or failed no
\* deposit is broadcast.
C24_DepositAfterAllowance ==
    /\ \A i \in TxsVia("depositERC20To") :
         LET amount == oplog.txs[i].amount
         IN  \/ oplog.a_seen >= amount
             \/ /\ oplog.a_rcpt = Receipt(1)
                /\ \E j \in 1..(i - 1) :
                     /\ oplog.txs[j].via = "approve"
                     /\ oplog.txs[j].chain = oplog.txs[i].chain
                     /\ oplog.txs[j].amount >= amount
                     /\ oplog.txs[j].amount = Max(amount * 10, APPROVE_FLOOR_TOKENS)
    /\ (oplog.a_rcpt \in {NoneResult, Receipt(0)} => TxsVia("depositERC20To") = {})

\* C24 witness: an insufficient allowance, an approval confirmed, then the deposit.
C24_Witness ==
    /\ oplog.op = "deposit_erc20_to_l2"
    /\ oplog.a_seen >= 0 /\ oplog.a_seen < PartTokens
    /\ oplog.a_rcpt = Receipt(1)
    /\ TxsVia("approve") # {} /\ TxsVia("depositERC20To") # {}

\* C25: after a faucet claim confirmed with status success, the answer of
\* check_and_claim_erc20_balance is True exactly when the balance read after the
\* claim is positive, short of the required amount or not; zero gives False.
C25_AnyPositiveBalanceAfterClaim ==
    (oplog.c_faucet = "claimed" /\ oplog.c_reread >= 0) =>
        /\ oplog.c_result \in {"true", "false"}
        /\ (oplog.c_result = "true" <=> oplog.c_reread > 0)

\* C25 witness: the claim confirmed, the balance after it positive but short.
C25_Witness ==
    /\ oplog.c_faucet = "claimed"
    /\ oplog.c_reread = PartTokens /\ oplog.c_required = ERC20_TOKENS
    /\ oplog.c_result = "true"

\* C26: with an L2 token balance B > 0, the withdraw that withdraw_erc20_to_l1
\* broadcasts carries min(requested, B): never zero, never above B.
C26_WithdrawClamped ==
    (oplog.op = "withdraw_erc20_to_l1" /\ oplog.w_bal > 0) =>
        \A i \in TxsVia("withdraw") :
            /\ oplog.txs[i].amount = Min(oplog.w_requested, oplog.w_bal)
            /\ oplog.txs[i].amount > 0
            /\ oplog.txs[i].amount <= oplog.w_bal

\* C26 witness: 10 tokens requested with 4 held, and the withdraw broadcast.
C26_Witness ==
    /\ oplog.op = "withdraw_erc20_to_l1"
    /\ oplog.w_requested = ERC20_TOKENS /\ oplog.w_bal = PartTokens
    /\ TxsVia("withdraw") # {}

----------------------------------------------------------------------------
(* Claim about build_and_send given any dict, under SpecFill *)

FilledKeys == {"maxPriorityFeePerGas", "maxFeePerGas", "chainId", "nonce", "gas"}
FeeKeys == {"maxPriorityFeePerGas", "maxFeePerGas"}

\* C28: every transaction build_and_send signs holds the caller's fields as given
\* -- a pre-set fee field, chain id, nonce or gas among them -- except that the
\* two fee fields of the underpriced retry are the bumped ones; the fields added
\* are the absent ones of the five it fills, and an absent nonce is the handle's
\* nonce at the call.
C28_FillsOnlyAbsent ==
    \A i \in 1..Len(attempts) :
        LET signed == attempts[i].tx
        IN  /\ DOMAIN signed = DOMAIN given.tx \cup FilledKeys
            /\ \A k \in DOMAIN given.tx :
                 signed[k] = IF i = 2 /\ k \in FeeKeys
                             THEN (given.tx[k] * 5) \div 4
                             ELSE given.tx[k]
            /\ ("nonce" \notin DOMAIN given.tx => signed["nonce"] = nonce_at_call)
            /\ ("chainId" \notin DOMAIN given.tx => signed["chainId"] = ChainId(chain))

\* C28 witness: a call with every field pre-set, its nonce not the handle's, was
\* accepted by the node as given.
C28_Witness ==
    /\ pc = "returned" /\ Len(attempts) = 1
    /\ FilledKeys \subseteq DOMAIN given.tx
    /\ given.tx["nonce"] # nonce_at_call
    /\ attempts[1].tx = given.tx
    /\ sent[Len(sent)].nonce = given.tx["nonce"]

----------------------------------------------------------------------------
(* More claims about the submission pipeline, under Spec *)

\* The running call was given no gas of its own and the node's estimate failed.
EstimateFailed == DOMAIN given.tx # {} /\ "gas" \notin DOMAIN given.tx /\ ~given.est.ok

\* C29: when the gas estimate fails, the gas of the transaction is the default
\* cap -- 700000 for a call with payload data, 300000 for a plain one -- and
\* build_and_send goes on to the funds check or the broadcast: if it raises, it is
\* for a balance read, a short balance or the node's rejection.
C29_EstimateFailureFallsBack ==
    EstimateFailed =>
        /\ tx["gas"] = IF "data" \in DOMAIN given.tx /\ given.tx["data"] > 2
                       THEN 700000 ELSE 300000
        /\ \A i \in 1..Len(attempts) : attempts[i].tx["gas"] = tx["gas"]
        /\ (pc = "raised" =>
               \/ ret.error \in {<<"rpc">>, <<"insufficient">>}
               \/ (Len(attempts) > 0 /\ ret.error = attempts[Len(attempts)].answer.msg))

\* C29 witness: a call with payload data whose estimate failed was broadcast with
\* 700000 gas and accepted.
C29_Witness ==
    /\ EstimateFailed /\ pc = "returned"
    /\ "data" \in DOMAIN given.tx
    /\ attempts[Len(attempts)].tx["gas"] = 700000
    /\ attempts[Len(attempts)].answer.ok

\* C30: in the underpriced retry each fee field is at least what it was in the
\* first attempt, and every transaction signed whose two fee fields build_and_send
\* filled itself has maxFeePerGas >= maxPriorityFeePerGas, bumped or not.
C30_FeeBumpMonotonic ==
    /\ (Len(attempts) = 2 =>
            \A k \in FeeKeys : attempts[2].tx[k] >= attempts[1].tx[k])
    /\ (FeeKeys \cap DOMAIN given.tx = {} =>
            \A i \in 1..Len(attempts) :
                attempts[i].tx["maxFeePerGas"] >= attempts[i].tx["maxPriorityFeePerGas"])

\* C30 witness: a bumped retry of a call whose fees build_and_send had filled,
\* both fee fields strictly higher than in the first attempt.
C30_Witness ==
    /\ Len(attempts) = 2
    /\ FeeKeys \cap DOMAIN given.tx = {}
    /\ \A k \in FeeKeys : attempts[2].tx[k] > attempts[1].tx[k]
    /\ attempts[2].answer.ok

C31_FreshQuotePerSubmission ==
    \A i \in 1..Len(sent) : sent[i].quote_at = i - 1

\* C32: every decision on a task's balance precondition uses balances read after
\* all earlier tasks of the account have finished.
C32_BalanceReadPerDecision ==
    cyc.decided_on = cyc.decided_no

\* C33: the global task runs exactly once in a cycle and after all accounts,
\* whatever the accounts' balances and the outcomes of their tasks: at the summary
\* it has run, it has not run before its turn, and when it runs every account was
\* skipped or had its four tasks' turns.
C33_GlobalTaskOnceAfterAccounts ==
    /\ cyc.phase = "summary" => cyc.global_tried
    /\ cyc.phase \in {"account", "tasks", "global"} => ~cyc.global_tried
    /\ cyc.global_tried =>
         /\ cyc.acct = cyc.n
         /\ \A a \in 1..cyc.n :
              a \in cyc.skipped \/ \A t \in BaseTasks : <<a, t>> \in cyc.tried
    /\ cyc.phase = "aborted" => cyc.cause = "setup"

\* C33 witness: the summary of a cycle of two accounts, the first skipped for its
\* balances, tasks of the second failed, the global task run.
C33_Witness ==
    /\ cyc.phase = "summary"
    /\ cyc.n = 2
    /\ cyc.skipped = {1}
    /\ cyc.caught = 2
    /\ cyc.global_tried

\* The precondition of a task against the balances of the account (lines 1306,
\* 1322, 1325, 1337).
PreconditionUnmet(task, l1_ok, l2_level) ==
    IF task = "deposit_erc20" THEN ~l1_ok ELSE l2_level = 0

\* C34: in an account that is not skipped each task type has its turn exactly once
\* (as many turns as distinct tasks tried, four at the account's end), and a task
\* whose balance precondition is unmet is skipped, enters nothing that broadcasts
\* and is not counted as a success.
C34_EachTaskOnceUnmetSkipped ==
    cyc.phase = "tasks" =>
        /\ cyc.current_op - cyc.op_at_account = Cardinality(BaseTasks \ cyc.remaining)
        /\ {t \in BaseTasks : <<cyc.acct, t>> \in cyc.tried} = BaseTasks \ cyc.remaining
        /\ (cyc.last.task # "none"
              /\ PreconditionUnmet(cyc.last.task, cyc.l1_ok, cyc.l2_level)) =>
               /\ cyc.last.out = "skip"
               /\ ~cyc.last.entered
               /\ cyc.success_count = cyc.last.succ_before

\* C34 witness: the fourth turn of an account with enough on L1 and nothing on L2
\* was the self transfer, skipped.
C34_Witness ==
    /\ cyc.phase = "tasks"
    /\ cyc.remaining = {}
    /\ cyc.l1_ok /\ cyc.l2_level = 0
    /\ cyc.last.task = "self_transfer"
    /\ cyc.last.out = "skip"
    /\ cyc.current_op - cyc.op_at_account = 4

\* C35: success_count never exceeds current_op, and at the summary current_op is
\* accounts x 4 + 1 and success_count at most that.
C35_TallyConsistent ==
    /\ cyc.success_count <= cyc.current_op
    /\ cyc.phase = "summary" =>
         /\ cyc.current_op = cyc.n * Cardinality(BaseTasks) + 1
         /\ cyc.success_count <= cyc.n * Cardinality(BaseTasks) + 1

\* C35 witness: the summary of a cycle with a skipped account, a skipped task, a
\* failed task and successes.
C35_Witness ==
    /\ cyc.phase = "summary"
    /\ cyc.n = 2
    /\ cyc.skipped # {}
    /\ cyc.caught > 0
    /\ cyc.success_count > 1
    /\ cyc.success_count < cyc.current_op
    /\ cyc.current_op = 9

\* C36: whenever an operation submits through a handle, the handle's nonce is the
\* account's next nonce on that network: no handle in use is behind another handle
\* of the same account and network.
C36_HandleNonceCurrent ==
    \A i \in 1..Len(stack) :
        stack[i].h \in {"l1", "temp_l1"} => nonce[stack[i].h] = PendingCount

\* C37: every broadcast of build_and_send that the L2-style network accepted,
\* the fee-bumped one included, has a worst-case cost (value + gas x the
\* maxFeePerGas signed) within the balance that the funds check found sufficient.
C37_BroadcastCostCovered ==
    \A i \in 1..Len(attempts) :
        (StartsWithGIWA(ChainName(chain)) /\ attempts[i].answer.ok) =>
            given.covered >= WorstCost(attempts[i].tx)

\* The pipeline went on to the broadcast: it is about to sign, or the node has
\* answered an attempt.
WentToBroadcast == pc = "send" \/ Len(attempts) > 0

\* C38: on the L2-style network, after a first insufficient check, the call goes
\* on to the broadcast if and only if the second check, made after
\* wait_for_l2_credit returned, reports sufficient, whatever the wait returned;
\* otherwise it raises.  On the other network no check and no credit wait is made.
C38_SecondCheckDecides ==
    /\ Len(fundsLog) <= 2
    /\ Len(fundsLog) = 2 =>
         /\ StartsWithGIWA(ChainName(chain))
         /\ ~fundsLog[1]
         /\ given.credit \in {"true", "false"}
         /\ WentToBroadcast <=> fundsLog[2]
         /\ ~fundsLog[2] => (pc = "raised" /\ ret = Raise(<<"insufficient">>))
    /\ (pc \in {"send", "resend", "returned", "raised", "funds", "bal_before", "credit"}
          /\ ~StartsWithGIWA(ChainName(chain))) =>
         (fundsLog = <<>> /\ cpc = "off" /\ given.credit = "none" /\ pc \notin {"funds", "bal_before", "credit"})

\* C38 witness: the credit wait returned false, the second check found the balance
\* sufficient, and the transaction was broadcast and accepted.
C38_Witness ==
    /\ chain = "l2"
    /\ fundsLog = <<FALSE, TRUE>>
    /\ given.credit = "false"
    /\ pc = "returned"
    /\ Len(sent) > 0

\* C38 second witness: the credit wait returned true and the second check refused.
C38_CreditedButRefused ==
    /\ chain = "l2"
    /\ fundsLog = <<FALSE, FALSE>>
    /\ given.credit = "true"
    /\ pc = "raised"

\* C39: in distribute_and_bridge a deposit is broadcast only right after the
\* transfer of the same target, whose receipt reported success, and with the nonce
\* following the transfer's; a transfer whose receipt is absent or failed is
\* followed by no deposit of its target, and the handle's nonce counts it.
C39_DepositAfterConfirmedTransfer ==
    /\ \A j \in 1..Len(sent) :
         sent[j].via = "deposit" =>
            /\ j > 1
            /\ sent[j - 1].via = "transfer"
            /\ sent[j - 1].target = sent[j].target
            /\ sent[j - 1].rcpt = Receipt(1)
            /\ sent[j].nonce = sent[j - 1].nonce + 1
    /\ \A i \in 1..Len(sent) :
         (sent[i].via = "transfer" /\ sent[i].rcpt \in {NoneResult, Receipt(0)}) =>
            /\ nonce["l1"] > sent[i].nonce
            /\ i = Len(sent) => pc \notin {"d_deposit", "d_send2", "d_resend2"}
            /\ i < Len(sent) => sent[i + 1].via # "deposit"

\* C39 witness: a target's deposit was broadcast after its confirmed transfer.
C39_Witness ==
    /\ Len(sent) = 2
    /\ sent[1].via = "transfer" /\ sent[1].rcpt = Receipt(1)
    /\ sent[2].via = "deposit" /\ sent[2].target = sent[1].target
    /\ sent[2].nonce = sent[1].nonce + 1

\* C39, the other case: the first target's transfer failed, no deposit was made
\* for it, and the second target's transfer took the next nonce.
C39_SkippedAfterFailedTransfer ==
    /\ Len(sent) = 2
    /\ sent[1].via = "transfer" /\ sent[1].target = 1 /\ sent[1].rcpt = Receipt(0)
    /\ sent[2].via = "transfer" /\ sent[2].target = 2
    /\ sent[2].nonce = sent[1].nonce + 1

\* C40: an error raised by a cycle does not end the 24-hour loop: only an
\* interrupt ends it, the countdown runs after every cycle (cycle_count already
\* advanced), and a further cycle starts only after all its sleeps.
C40_ErrorKeepsLoop ==
    /\ flow.phase = "ended" => flow.interrupted
    /\ flow.phase = "countdown" =>
         (flow.cycle_count = flow.started + 1 /\ flow.ticks + flow.remaining = CountdownTicks)
    /\ (flow.phase = "cycle" /\ flow.started > 1) =>
         (flow.ticks = CountdownTicks /\ flow.cycle_count = flow.started)

\* C40 witness: the first cycle raised an error, the countdown ran, and the second
\* cycle has started with no interrupt delivered.
C40_Witness ==
    /\ flow.erred
    /\ ~flow.interrupted
    /\ flow.phase = "cycle"
    /\ flow.started = 2
    /\ flow.ticks = CountdownTicks

====
